---------------------------- MODULE Spec2Model ----------------------------
(***************************************************************************)
(* Model of the 2D nesting engines of aly-mahmoud97/2d_Nesting:            *)
(*   optimized_nesting_v2.py     ("v2":     MaxRects candidates, scored)   *)
(*   optimized_nesting_hybrid.py ("hybrid": skyline/corner candidates,     *)
(*                                bottom-left choice)                      *)
(*   optimized_nesting_planar.py ("planar": shape-bearing panels)          *)
(*   test_nesting.py             ("beamsaw": guillotine cuts, grain)       *)
(*                                                                         *)
(* Lengths are integers.  Every float comparison of the source is kept as  *)
(* the exact comparison of the same rational numbers: a quotient a/b > c/d *)
(* is written a*d > c*b, the tolerances 1e-6 and 0.1 separate no two       *)
(* integers, so  x > w + 1e-6  is  x > w  and  abs(a - b) < 0.1  is a = b. *)
(* Python list indices are 0-based; sequences here are 1-based.            *)
(***************************************************************************)
EXTENDS Integers, Sequences, FiniteSets, TLC

VARIABLES
    engine,          \* which source file is running: "v2", "hybrid", "planar",
                     \* "beamsaw"
    kerf,            \* module-level kerf (blade thickness)
    sheet_sizes,     \* nest_panels argument: list of <<w, h, type_id>>
    panels,          \* nest_panels argument: list of Panel; under SawSpec,
                     \* the argument of BeamSawNestingAlgorithm.nest
    pc,              \* position of nest_panels; under SawSpec, of nest
    sheets,          \* nest_panels local: list of Sheet
    remaining,       \* nest_panels local; under SawSpec, sorted_panels of nest
    iteration,       \* nest_panels local; under SheetSpec, the add calls made
    placed_indices,  \* nest_panels local
    sheet_placed,    \* nest_panels local
    si,              \* index of the `for sheet in sheets` loop
    pi,              \* index of the `for i, panel in enumerate(remaining)` loops;
                     \* under SawSpec, of `for panel in sorted_panels`
    new_sheet,       \* nest_panels local: the sheet being opened, or None
    best_config,     \* nest_panels local: <<w, h, type_id>> or None
    warned,          \* ids printed by "WARNING: Cannot place panel"; under
                     \* SawSpec, by "Warning: Panel ... is too large"
    exit,            \* which statement left the main loop
    sh,              \* a Sheet driven through its public methods; under
                     \* SawSpec, the BeamSawNestingAlgorithm object
    cur,             \* the Panel object handed to sh
    cur0,            \* constructor arguments cur was built from
    last             \* what the last call on sh returned, and its arguments

drv == <<pc, sheets, remaining, iteration, placed_indices, sheet_placed,
         si, pi, new_sheet, best_config, warned, exit>>
api == <<sh, cur, cur0, last>>
inp == <<engine, kerf, sheet_sizes, panels>>
vars == <<inp, drv, api>>

\* Python's None; an optional value v is <<v>>
None == <<>>

------------------------------------------------------------------------------
(* Bounds of the model *)

\* longest panel list handed to nest_panels
MaxPanels == 3
\* longest sequence of Sheet.add calls made on one sheet through its methods
MaxAdds == 3

------------------------------------------------------------------------------
(* Program constants: NestingConfig('balanced'), v2 lines 51-80 *)

GRID_TARGET_CELLS == 6
GRID_MIN_CELLS == 8
GRID_MAX_CELLS == 70
MAX_CANDIDATE_POSITIONS == 60
MAX_TEST_PANELS_HIGH == 30
MAX_TEST_PANELS_LOW == 70
TEST_PANEL_THRESHOLD == 50
MAX_SKYLINE_SEGMENTS == 100

------------------------------------------------------------------------------
(* Arithmetic and list helpers *)

Min(a, b) == IF a <= b THEN a ELSE b
Max(a, b) == IF a >= b THEN a ELSE b
Abs(a) == IF a >= 0 THEN a ELSE -a

\* math.floor(a / b) and math.ceil(a / b) for a >= 0, b > 0
FloorDiv(a, b) == a \div b
CeilDiv(a, b) == (a + b - 1) \div b

Range(s) == {s[i] : i \in 1..Len(s)}

\* s[:n]
Take(s, n) == SubSeq(s, 1, Min(n, Len(s)))

\* Python's sorted(s, key=...): stable, Less(a, b) iff key(a) < key(b)
Sorted(s, Less(_, _)) ==
    LET n == Len(s)
        rank(i) == Cardinality({j \in 1..n :
                       \/ Less(s[j], s[i])
                       \/ (~Less(s[i], s[j]) /\ j < i)}) + 1
    IN  [k \in 1..n |-> s[CHOOSE i \in 1..n : rank(i) = k]]

\* the elements of s whose index satisfies Keep, in order
KeepIdx(s, Keep(_)) ==
    LET idx == {i \in 1..Len(s) : Keep(i)}
    IN  [k \in 1..Cardinality(idx) |->
            s[CHOOSE i \in idx : Cardinality({j \in idx : j < i}) = k - 1]]

\* Body applied to the value of v, which is computed once
With(v, Body(_)) == CHOOSE r \in {Body(y) : y \in {v}} : TRUE

RECURSIVE Concat(_)
\* a list of lists flattened
Concat(ss) == IF ss = <<>> THEN <<>> ELSE Head(ss) \o Concat(Tail(ss))

RECURSIVE SumSeq(_)
SumSeq(s) == IF s = <<>> THEN 0 ELSE Head(s) + SumSeq(Tail(s))

------------------------------------------------------------------------------
(* class Panel (v2 and hybrid) *)

\* is_copy stands for the identity of the object: FALSE on the instances the
\* caller of nest_panels built, TRUE on the instances Panel.copy returns
Panel(w, h, id) ==
    [id |-> id, orig_w |-> w, orig_h |-> h, w |-> w, h |-> h,
     area |-> w * h, rotated |-> FALSE, is_copy |-> FALSE]

\* mutant: the flag is set instead of toggled
Panel_rotate_sets_flag(p) ==
    [p EXCEPT !.w = p.h, !.h = p.w, !.rotated = TRUE]

Panel_rotate(p) ==
    [p EXCEPT !.w = p.h, !.h = p.w, !.rotated = ~p.rotated]

\* The two caches are cleared by every rotate(), the only writer of w and h,
\* and kerf is never reassigned: the cached value is always w + kerf.
get_placed_width(p) == p.w + kerf
get_placed_height(p) == p.h + kerf

\* mutant: the panel itself is handed on, no new object is made
Panel_copy_same_object(p) == p

Panel_copy(p) ==
    LET q == [Panel(p.orig_w, p.orig_h, p.id) EXCEPT !.is_copy = TRUE]
    IN  IF p.rotated THEN Panel_rotate(q) ELSE q

\* returns <<fits, needs_rotation>> (allow_rotation keeps its default True)
fits_in_rect(p, w, h) ==
    IF get_placed_width(p) <= w /\ get_placed_height(p) <= h THEN <<TRUE, FALSE>>
    ELSE IF get_placed_height(p) <= w /\ get_placed_width(p) <= h THEN <<TRUE, TRUE>>
    ELSE <<FALSE, FALSE>>

------------------------------------------------------------------------------
(* class FreeRectangle *)

FreeRectangle(x, y, w, h) == [x |-> x, y |-> y, w |-> w, h |-> h]

FreeRectangle_area(r) == r.w * r.h

contains_point(r, x, y) ==
    r.x <= x /\ x < r.x + r.w /\ r.y <= y /\ y < r.y + r.h

intersects(r, other) ==
    ~(\/ r.x + r.w <= other.x
      \/ other.x + other.w <= r.x
      \/ r.y + r.h <= other.y
      \/ other.y + other.h <= r.y)

contains(r, other) ==
    /\ other.x >= r.x
    /\ other.y >= r.y
    /\ other.x + other.w <= r.x + r.w
    /\ other.y + other.h <= r.y + r.h

------------------------------------------------------------------------------
(* class Sheet: construction, grid, fits, place *)

\* int(w / (avg_panel_size * t)) where avg_panel_size = sqrt(avg.total / avg.n)
CellCount(w, t, avg) ==
    CHOOSE k \in 0..w :
        /\ k * k * t * t * avg.total <= w * w * avg.n
        /\ (k + 1) * (k + 1) * t * t * avg.total > w * w * avg.n

\* grid_cols / grid_rows for a sheet side w (avg_panel_size is always passed)
GridCount(w, avg) ==
    IF engine = "v2"
    THEN Max(GRID_MIN_CELLS, Min(GRID_MAX_CELLS, CellCount(w, GRID_TARGET_CELLS, avg)))
    ELSE Max(5, Min(50, CellCount(w, 5, avg)))

Sheet(w, h, type_id, avg) ==
    LET cols == GridCount(w, avg)
        rows == GridCount(h, avg)
    IN  [w |-> w, h |-> h, type_id |-> type_id,
         panels |-> <<>>, filled_area |-> 0,
         grid_cols |-> cols, grid_rows |-> rows,
         grid |-> [c \in (0..rows - 1) \X (0..cols - 1) |-> <<>>],
         skyline |-> << <<0, 0, w>> >>,
         free_rects |-> << FreeRectangle(0, 0, w, h) >>]

\* mutant: only the cell of the lower left corner is returned
_get_grid_cells_corner_only(s, x, y, w, h) ==
    LET x0 == Max(0, Min(s.grid_cols - 1, FloorDiv(x * s.grid_cols, s.w)))
        y0 == Max(0, Min(s.grid_rows - 1, FloorDiv(y * s.grid_rows, s.h)))
    IN  {<<y0, x0>>}

\* cell_w = w / grid_cols, so x / cell_w = x * grid_cols / w
_get_grid_cells(s, x, y, w, h) ==
    LET x0 == Max(0, Min(s.grid_cols - 1, FloorDiv(x * s.grid_cols, s.w)))
        y0 == Max(0, Min(s.grid_rows - 1, FloorDiv(y * s.grid_rows, s.h)))
        x1 == Max(0, Min(s.grid_cols - 1, CeilDiv((x + w) * s.grid_cols, s.w)))
        y1 == Max(0, Min(s.grid_rows - 1, CeilDiv((y + h) * s.grid_rows, s.h)))
    IN  {<<row, col>> : row \in y0..y1, col \in x0..x1}

\* the bounding-box test of fits against one placed triple
BoxesOverlap(x, y, pw, ph, t) ==
    ~(\/ x + pw <= t.x
      \/ x >= t.x + get_placed_width(t.p)
      \/ y + ph <= t.y
      \/ y >= t.y + get_placed_height(t.p))

\* mutant: the right and top bounds are not checked
fits_no_upper_bound(s, p, x, y) ==
    LET pw == get_placed_width(p)
        ph == get_placed_height(p)
    IN  IF x < 0 \/ y < 0 THEN FALSE
        ELSE LET cells == _get_grid_cells(s, x, y, pw, ph)
                 found == UNION {Range(s.grid[c]) : c \in cells}
             IN  \A idx \in found : ~BoxesOverlap(x, y, pw, ph, s.panels[idx])

\* mutant: a footprint that reaches the right or top edge exactly is rejected
fits_rejects_exact(s, p, x, y) ==
    LET pw == get_placed_width(p)
        ph == get_placed_height(p)
    IN  IF x + pw >= s.w \/ y + ph >= s.h \/ x < 0 \/ y < 0 THEN FALSE
        ELSE LET cells == _get_grid_cells(s, x, y, pw, ph)
                 found == UNION {Range(s.grid[c]) : c \in cells}
             IN  \A idx \in found : ~BoxesOverlap(x, y, pw, ph, s.panels[idx])

\* mutant: the collision scan is skipped
fits_bounds_only(s, p, x, y) ==
    LET pw == get_placed_width(p)
        ph == get_placed_height(p)
    IN  ~(x + pw > s.w \/ y + ph > s.h \/ x < 0 \/ y < 0)

\* Sheet.fits of v2 and hybrid
fits(s, p, x, y) ==
    LET pw == get_placed_width(p)
        ph == get_placed_height(p)
    IN  IF x + pw > s.w \/ y + ph > s.h \/ x < 0 \/ y < 0 THEN FALSE
        ELSE LET cells == _get_grid_cells(s, x, y, pw, ph)
                 found == UNION {Range(s.grid[c]) : c \in cells}
             IN  \A idx \in found : ~BoxesOverlap(x, y, pw, ph, s.panels[idx])

RECURSIVE SkylineLoop(_, _, _, _, _, _, _)
\* the for loop of _update_skyline: returns <<updated_skyline, new_segment>>
SkylineLoop(sky, i, x, w, ns, merged, acc) ==
    IF i > Len(sky) THEN <<acc, ns>>
    ELSE LET seg_x == sky[i][1]
             seg_y == sky[i][2]
             seg_w == sky[i][3]
         IN  IF x < seg_x + seg_w /\ x + w > seg_x
             THEN IF seg_y = ns[2]
                  THEN IF ~merged
                       THEN With(Min(ns[1], seg_x), LAMBDA n0 :
                            With(<<n0, ns[2], Max(n0 + ns[3], seg_x + seg_w) - n0>>,
                                 LAMBDA merged_segment :
                                SkylineLoop(sky, i + 1, x, w, merged_segment, TRUE, acc)))
                       ELSE SkylineLoop(sky, i + 1, x, w, ns, merged, acc)
                  ELSE IF seg_y < ns[2]
                       THEN SkylineLoop(sky, i + 1, x, w, ns, merged, acc)
                       ELSE With(Append(acc, sky[i]), LAMBDA kept :
                                SkylineLoop(sky, i + 1, x, w, ns, merged, kept))
             ELSE With(Append(acc, sky[i]), LAMBDA kept :
                      SkylineLoop(sky, i + 1, x, w, ns, merged, kept))

SkylineLess(a, b) == a[2] < b[2] \/ (a[2] = b[2] /\ a[1] < b[1])

\* returns the new skyline
_update_skyline(s, x, y, w, h) ==
    With(<<x, y + h, w>>, LAMBDA new_segment :
    With(SkylineLoop(s.skyline, 1, x, w, new_segment, FALSE, <<>>), LAMBDA r :
    With(Append(r[1], r[2]), LAMBDA updated_skyline :
        Take(Sorted(updated_skyline, SkylineLess), MAX_SKYLINE_SEGMENTS))))

\* mutant: nothing is pruned
_prune_free_rects_keeps_all(rects) == rects

_prune_free_rects(rects) ==
    IF Len(rects) <= 1 THEN rects
    ELSE LET Keep(i) == ~\E j \in 1..Len(rects) : i # j /\ contains(rects[j], rects[i])
         IN  KeepIdx(rects, Keep)

\* mutant: the part of the rectangle above the placed one is not kept
SplitRect_without_top(rect, placed_x, placed_y, placed_w, placed_h) ==
    IF ~intersects(rect, FreeRectangle(placed_x, placed_y, placed_w, placed_h))
    THEN <<rect>>
    ELSE (IF placed_x > rect.x
          THEN <<FreeRectangle(rect.x, rect.y, placed_x - rect.x, rect.h)>>
          ELSE <<>>)
      \o (IF placed_x + placed_w < rect.x + rect.w
          THEN <<FreeRectangle(placed_x + placed_w, rect.y,
                               rect.x + rect.w - (placed_x + placed_w), rect.h)>>
          ELSE <<>>)
      \o (IF placed_y > rect.y
          THEN <<FreeRectangle(rect.x, rect.y, rect.w, placed_y - rect.y)>>
          ELSE <<>>)

\* what one free rectangle contributes to new_free_rects
SplitRect(rect, placed_x, placed_y, placed_w, placed_h) ==
    IF ~intersects(rect, FreeRectangle(placed_x, placed_y, placed_w, placed_h))
    THEN <<rect>>
    ELSE (IF placed_x > rect.x
          THEN <<FreeRectangle(rect.x, rect.y, placed_x - rect.x, rect.h)>>
          ELSE <<>>)
      \o (IF placed_x + placed_w < rect.x + rect.w
          THEN <<FreeRectangle(placed_x + placed_w, rect.y,
                               rect.x + rect.w - (placed_x + placed_w), rect.h)>>
          ELSE <<>>)
      \o (IF placed_y > rect.y
          THEN <<FreeRectangle(rect.x, rect.y, rect.w, placed_y - rect.y)>>
          ELSE <<>>)
      \o (IF placed_y + placed_h < rect.y + rect.h
          THEN <<FreeRectangle(rect.x, placed_y + placed_h,
                               rect.w, rect.y + rect.h - (placed_y + placed_h))>>
          ELSE <<>>)

\* returns the new free_rects
_update_free_rects(s, placed_x, placed_y, placed_w, placed_h) ==
    With([i \in 1..Len(s.free_rects) |->
            SplitRect(s.free_rects[i], placed_x, placed_y, placed_w, placed_h)],
         LAMBDA pieces :
    With(Concat(pieces), LAMBDA new_free_rects : _prune_free_rects(new_free_rects)))

\* what place adds to filled_area
PlacedArea(p) ==
    IF engine = "planar" THEN p.area
    ELSE get_placed_width(p) * get_placed_height(p)

\* mutant: the kerf is left out of the accumulated area
place_area_without_kerf(s, p, x, y) ==
    LET panel_idx == Len(s.panels) + 1
        pw == get_placed_width(p)
        ph == get_placed_height(p)
        cells == _get_grid_cells(s, x, y, pw, ph)
    IN  [s EXCEPT
            !.panels = Append(s.panels, [p |-> p, x |-> x, y |-> y]),
            !.grid = [c \in DOMAIN s.grid |->
                        IF c \in cells THEN Append(s.grid[c], panel_idx) ELSE s.grid[c]],
            !.filled_area = s.filled_area + p.w * p.h,
            !.skyline = _update_skyline(s, x, y, pw, ph),
            !.free_rects = _update_free_rects(s, x, y, pw, ph)]

\* mutant: filled_area is assigned instead of accumulated
place_overwrites_area(s, p, x, y) ==
    LET panel_idx == Len(s.panels) + 1
        pw == get_placed_width(p)
        ph == get_placed_height(p)
        cells == _get_grid_cells(s, x, y, pw, ph)
    IN  [s EXCEPT
            !.panels = Append(s.panels, [p |-> p, x |-> x, y |-> y]),
            !.grid = [c \in DOMAIN s.grid |->
                        IF c \in cells THEN Append(s.grid[c], panel_idx) ELSE s.grid[c]],
            !.filled_area = PlacedArea(p),
            !.skyline = _update_skyline(s, x, y, pw, ph),
            !.free_rects = _update_free_rects(s, x, y, pw, ph)]

\* Sheet.place: returns the sheet after the call (USE_MAXRECTS is True)
place(s, p, x, y) ==
    LET panel_idx == Len(s.panels) + 1
        pw == get_placed_width(p)
        ph == get_placed_height(p)
        cells == _get_grid_cells(s, x, y, pw, ph)
    IN  [s EXCEPT
            !.panels = Append(s.panels, [p |-> p, x |-> x, y |-> y]),
            !.grid = [c \in DOMAIN s.grid |->
                        IF c \in cells THEN Append(s.grid[c], panel_idx) ELSE s.grid[c]],
            !.filled_area = s.filled_area + PlacedArea(p),
            !.skyline = _update_skyline(s, x, y, pw, ph),
            !.free_rects = _update_free_rects(s, x, y, pw, ph)]

\* efficiency() as the fraction <<numerator, denominator>>
efficiency(s) ==
    IF s.panels = <<>> THEN <<0, 1>> ELSE <<s.filled_area, s.w * s.h>>

\* mutant: a sheet is closed as soon as it holds anything
should_stop_adding_any_fill(s) ==
    LET e == efficiency(s) IN 100 * e[1] > 0

\* efficiency() > 0.95
should_stop_adding(s) ==
    LET e == efficiency(s) IN 100 * e[1] > 95 * e[2]

------------------------------------------------------------------------------
(* class Sheet: candidate positions and the position search *)

\* v2, heuristic 'all' with USE_MULTIPLE_HEURISTICS: the score times 1000
MaxRectsScore(rect, pw, ph) ==
    LET leftover_horizontal == rect.w - pw
        leftover_vertical == rect.h - ph
        leftover_short == Min(leftover_horizontal, leftover_vertical)
        leftover_long == Max(leftover_horizontal, leftover_vertical)
        leftover_area == FreeRectangle_area(rect) - pw * ph
    IN  leftover_short * 1000 + leftover_long * 500 + leftover_area
          + rect.y * 100 + rect.x * 10

ScoreLess(a, b) == a[3] < b[3]

\* v2: list of <<x, y>>
get_candidate_positions_maxrects(s, p) ==
    LET pw == get_placed_width(p)
        ph == get_placed_height(p)
        Holds(i) == pw <= s.free_rects[i].w /\ ph <= s.free_rects[i].h
    IN  With(KeepIdx(s.free_rects, Holds), LAMBDA usable :
        With([i \in 1..Len(usable) |->
                <<usable[i].x, usable[i].y, MaxRectsScore(usable[i], pw, ph)>>],
             LAMBDA positions :
        With(Take(Sorted(positions, ScoreLess), MAX_CANDIDATE_POSITIONS),
             LAMBDA ordered :
                [i \in 1..Len(ordered) |-> <<ordered[i][1], ordered[i][2]>>])))

\* v2: the waste term, times 2 (first free rectangle that holds the footprint)
WasteTerm(s, x, y, pw, ph) ==
    LET hit == {i \in 1..Len(s.free_rects) :
                   /\ contains_point(s.free_rects[i], x, y)
                   /\ x + pw <= s.free_rects[i].x + s.free_rects[i].w
                   /\ y + ph <= s.free_rects[i].y + s.free_rects[i].h}
    IN  IF hit = {} THEN 0
        ELSE LET r == s.free_rects[CHOOSE i \in hit : \A j \in hit : i <= j]
             IN  (r.w - pw) * (r.h - ph)

\* v2: whether a placed triple shares an edge with the footprint
IsAdjacent(t, x, y, pw, ph) ==
    LET px == t.x
        py == t.y
        p_pw == get_placed_width(t.p)
        p_ph == get_placed_height(t.p)
    IN  \/ (x + pw = px /\ ~(y + ph <= py \/ y >= py + p_ph))
        \/ (px + p_pw = x /\ ~(y + ph <= py \/ y >= py + p_ph))
        \/ (y + ph = py /\ ~(x + pw <= px \/ x >= px + p_pw))
        \/ (py + p_ph = y /\ ~(x + pw <= px \/ x >= px + p_pw))

\* v2: the placement score, times 2
_calculate_placement_score(s, p, x, y) ==
    LET pw == get_placed_width(p)
        ph == get_placed_height(p)
        edges == (IF x <= 0 THEN -20 ELSE 0) + (IF y <= 0 THEN -20 ELSE 0)
                   + (IF x + pw >= s.w THEN -10 ELSE 0)
                   + (IF y + ph >= s.h THEN -10 ELSE 0)
        adjacent_count == Cardinality({i \in 1..Len(s.panels) :
                                          IsAdjacent(s.panels[i], x, y, pw, ph)})
        touching_score == edges - adjacent_count * 15
    IN  2 * (y * 100 + x) + WasteTerm(s, x, y, pw, ph) + 2 * touching_score

\* mutant: the hybrid engine minimises y alone
PositionScore_lowest_y(s, p, x, y) ==
    IF engine = "v2" THEN _calculate_placement_score(s, p, x, y)
    ELSE y

\* the quantity minimised over the candidates
PositionScore(s, p, x, y) ==
    IF engine = "v2" THEN _calculate_placement_score(s, p, x, y)
    ELSE y + get_placed_height(p)

\* one trial of the search loop: keeps the best so far (strict <)
Better(s, p, x, y, rot, b) ==
    IF ~fits(s, p, x, y) THEN b
    ELSE With(PositionScore(s, p, x, y), LAMBDA score :
            IF ~b.found \/ score < b.score
            THEN [found |-> TRUE, x |-> x, y |-> y, rotated |-> rot, score |-> score]
            ELSE b)

RECURSIVE SearchLoop(_, _, _, _, _)
\* `for x, y in positions` of find_best_position (v2) and try_add_panel
\* (hybrid): the panel is rotated and rotated back at every position.
\* Returns <<best, panel after the loop>>.
SearchLoop(s, positions, i, p, b) ==
    IF i > Len(positions) THEN <<b, p>>
    ELSE With(Better(s, p, positions[i][1], positions[i][2], FALSE, b), LAMBDA b1 :
         With(Panel_rotate(p), LAMBDA p1 :
         With(Better(s, p1, positions[i][1], positions[i][2], TRUE, b1), LAMBDA b2 :
         With(Panel_rotate(p1), LAMBDA p2 :
            SearchLoop(s, positions, i + 1, p2, b2)))))

NoBest == [found |-> FALSE, x |-> 0, y |-> 0, rotated |-> FALSE, score |-> 0]

\* sorted(valid_positions, key=lambda p: (p[1], p[0]))
PosLess(a, b) == a[2] < b[2] \/ (a[2] = b[2] /\ a[1] < b[1])

RECURSIVE SetToSortedSeq(_)
\* the distinct positions of a set, lowest y then lowest x first
SetToSortedSeq(S) ==
    IF S = {} THEN <<>>
    ELSE With(CHOOSE a \in S : \A b \in S : a = b \/ PosLess(a, b), LAMBDA m :
         With(S \ {m}, LAMBDA rest : <<m>> \o SetToSortedSeq(rest)))

\* hybrid and planar: list of <<x, y>>
get_candidate_positions(s) ==
    IF s.panels = <<>> THEN << <<0, 0>> >>
    ELSE LET sky == Take(s.skyline, 30)
             skyline_pos ==
                 {<<sky[i][1], sky[i][2]>> : i \in 1..Len(sky)}
                 \cup {<<sky[i][1] + sky[i][3], sky[i][2]>> :
                          i \in {j \in 1..Len(sky) : sky[j][1] + sky[j][3] < s.w}}
             Corners(t) ==
                 LET pw == get_placed_width(t.p)
                     ph == get_placed_height(t.p)
                 IN  {<<t.x + pw, t.y>>, <<t.x, t.y + ph>>, <<t.x + pw, t.y + ph>>,
                      <<0, t.y + ph>>, <<t.x + pw, 0>>}
             corner_pos == UNION {Corners(s.panels[i]) : i \in 1..Len(s.panels)}
             valid == {q \in skyline_pos \cup corner_pos :
                          q[1] >= 0 /\ q[2] >= 0 /\ q[1] < s.w /\ q[2] < s.h}
         IN  With(valid, LAMBDA positions : SetToSortedSeq(positions))

\* positions[20:-10:step]
StridedMiddle(positions, step) ==
    LET n == Len(positions) - 30
        cnt == IF n <= 0 THEN 0 ELSE CeilDiv(n, step)
    IN  [k \in 1..cnt |-> positions[20 + (k - 1) * step + 1]]

\* hybrid and planar: the sampling applied when more than 50 candidates exist
SamplePositions(positions) ==
    IF Len(positions) > 50
    THEN Take(Take(positions, 20)
              \o SubSeq(positions, Len(positions) - 9, Len(positions))
              \o StridedMiddle(positions, Max(1, (Len(positions) - 30) \div 20)),
              50)
    ELSE positions

\* the candidate list the search runs over
SearchPositions(s, p) ==
    IF engine = "v2" THEN get_candidate_positions_maxrects(s, p)
    ELSE SamplePositions(get_candidate_positions(s))

\* mutant: the panel is not rotated back after the last trial
try_add_panel_leaves_rotated(s, p) ==
    With(SearchPositions(s, p), LAMBDA positions :
    With(SearchLoop(s, positions, 1, p, NoBest), LAMBDA r :
        IF ~r[1].found
        THEN [success |-> FALSE, x |-> 0, y |-> 0, rotated |-> FALSE,
              panel |-> Panel_rotate(r[2])]
        ELSE [success |-> TRUE, x |-> r[1].x, y |-> r[1].y,
              rotated |-> r[1].rotated, panel |-> Panel_rotate(r[2])]))

\* Sheet.try_add_panel of v2 (through find_best_position) and of hybrid.
\* Returns (success, x, y, rotated) and the panel object after the call.
\* (`if not positions` returns before the loop; the loop over no positions
\* finds nothing and leaves the panel alone, which is the same result.)
try_add_panel(s, p) ==
    With(SearchPositions(s, p), LAMBDA positions :
    With(SearchLoop(s, positions, 1, p, NoBest), LAMBDA r :
        IF ~r[1].found
        THEN [success |-> FALSE, x |-> 0, y |-> 0, rotated |-> FALSE, panel |-> r[2]]
        ELSE [success |-> TRUE, x |-> r[1].x, y |-> r[1].y,
              rotated |-> r[1].rotated, panel |-> r[2]]))

\* mutant: the panel is rotated before the outcome is known
add_rotates_first(s, p) ==
    With(try_add_panel(s, p), LAMBDA t :
        With(IF t.rotated \/ ~t.success THEN Panel_rotate(t.panel) ELSE t.panel,
             LAMBDA q :
                IF t.success
                THEN [success |-> TRUE, sheet |-> place(s, q, t.x, t.y), panel |-> q]
                ELSE [success |-> FALSE, sheet |-> s, panel |-> q]))

\* mutant: every panel is refused
add_refuses(s, p) == [success |-> FALSE, sheet |-> s, panel |-> p]

\* Sheet.add of v2 and hybrid: the return value, the sheet after the call
\* and the panel object after the call
add(s, p) ==
    With(try_add_panel(s, p), LAMBDA t :
        IF t.success
        THEN With(IF t.rotated THEN Panel_rotate(t.panel) ELSE t.panel, LAMBDA q :
                [success |-> TRUE, sheet |-> place(s, q, t.x, t.y), panel |-> q])
        ELSE [success |-> FALSE, sheet |-> s, panel |-> t.panel])

------------------------------------------------------------------------------
(* class PlanarPanel and the planar Sheet methods (optimized_nesting_planar) *)

SetMin(S) == CHOOSE m \in S : \A v \in S : m <= v
SetMax(S) == CHOOSE m \in S : \A v \in S : m >= v

\* abs(AreaMassProperties.Compute(boundary_curve).Area) of a closed polyline:
\* the shoelace sum (the surfaces of the model have integer areas)
_calculate_area(pts) ==
    LET n == Len(pts)
        Cross(i) == pts[i][1] * pts[(i % n) + 1][2] - pts[(i % n) + 1][1] * pts[i][2]
    IN  Abs(SumSeq([i \in 1..n |-> Cross(i)])) \div 2

\* PlanarPanel(surface, id): the surface is its boundary polyline, a list of
\* <<x, y>> vertices in the XY plane
PlanarPanel(surface, id) ==
    LET xs == {surface[i][1] : i \in 1..Len(surface)}
        ys == {surface[i][2] : i \in 1..Len(surface)}
    IN  [id |-> id, original_surface |-> surface,
         w |-> SetMax(xs) - SetMin(xs), h |-> SetMax(ys) - SetMin(ys),
         area |-> _calculate_area(surface),
         rotation_angle |-> 0, rotated |-> FALSE,
         boundary_points |-> surface]

\* PlanarPanel.rotate: Transform.Rotation(radians(90), Z, origin) maps
\* (x, y) to (-y, x)
PlanarPanel_rotate(p) ==
    [p EXCEPT !.rotation_angle = (p.rotation_angle + 90) % 360,
              !.rotated = ((p.rotation_angle + 90) % 360 # 0),
              !.w = p.h, !.h = p.w,
              !.boundary_points = [i \in 1..Len(p.boundary_points) |->
                  <<-p.boundary_points[i][2], p.boundary_points[i][1]>>]]

RECURSIVE RotateTimes(_, _)
\* `for _ in range(n): p.rotate()`
RotateTimes(p, n) == IF n <= 0 THEN p ELSE RotateTimes(PlanarPanel_rotate(p), n - 1)

PlanarPanel_copy(p) ==
    RotateTimes(PlanarPanel(p.original_surface, p.id), p.rotation_angle \div 90)

get_transformed_boundary_points(p, x, y) ==
    [i \in 1..Len(p.boundary_points) |->
        <<p.boundary_points[i][1] + x, p.boundary_points[i][2] + y>>]

\* ray casting: `inside` is toggled once for every edge the ray crosses.
\* x <= xinters is compared exactly, with dy = p2.Y - p1.Y # 0 here.
_point_in_polygon(point, polygon_points) ==
    LET x == point[1]
        y == point[2]
        n == Len(polygon_points)
        Crossed(i) ==
            LET p1 == polygon_points[i]
                p2 == polygon_points[(i % n) + 1]
                dy == p2[2] - p1[2]
                dx == p2[1] - p1[1]
            IN  /\ y > Min(p1[2], p2[2])
                /\ y <= Max(p1[2], p2[2])
                /\ x <= Max(p1[1], p2[1])
                /\ \/ p1[1] = p2[1]
                   \/ (dy > 0 /\ (x - p1[1]) * dy <= (y - p1[2]) * dx)
                   \/ (dy < 0 /\ (x - p1[1]) * dy >= (y - p1[2]) * dx)
    IN  Cardinality({i \in 1..n : Crossed(i)}) % 2 = 1

ccw(A, B, C) == (C[2] - A[2]) * (B[1] - A[1]) > (B[2] - A[2]) * (C[1] - A[1])

_line_segments_intersect(p1, p2, p3, p4) ==
    /\ ccw(p1, p3, p4) # ccw(p2, p3, p4)
    /\ ccw(p1, p2, p3) # ccw(p1, p2, p4)

_edges_intersect(poly1_points, poly2_points) ==
    LET n1 == Len(poly1_points)
        n2 == Len(poly2_points)
        step1 == Max(1, n1 \div 20)
        step2 == Max(1, n2 \div 20)
    IN  \E i \in {k \in 0..n1 - 1 : k % step1 = 0} :
        \E j \in {k \in 0..n2 - 1 : k % step2 = 0} :
            _line_segments_intersect(poly1_points[i + 1], poly1_points[((i + 1) % n1) + 1],
                                     poly2_points[j + 1], poly2_points[((j + 1) % n2) + 1])

_check_polygon_collision(panel1_points, panel2_points) ==
    \/ \E i \in 1..Min(5, Len(panel1_points)) :
           _point_in_polygon(panel1_points[i], panel2_points)
    \/ \E i \in 1..Min(5, Len(panel2_points)) :
           _point_in_polygon(panel2_points[i], panel1_points)
    \/ _edges_intersect(panel1_points, panel2_points)

\* Sheet.fits of planar: bounding boxes first, then the polygons
Planar_fits(s, p, x, y) ==
    LET pw == get_placed_width(p)
        ph == get_placed_height(p)
    IN  IF x + pw > s.w \/ y + ph > s.h \/ x < 0 \/ y < 0 THEN FALSE
        ELSE LET cells == _get_grid_cells(s, x, y, pw, ph)
                 found == UNION {Range(s.grid[c]) : c \in cells}
             IN  \A idx \in found :
                     BoxesOverlap(x, y, pw, ph, s.panels[idx])
                       => ~_check_polygon_collision(
                              get_transformed_boundary_points(p, x, y),
                              get_transformed_boundary_points(s.panels[idx].p,
                                  s.panels[idx].x, s.panels[idx].y))

RECURSIVE PlanarPositionLoop(_, _, _, _, _, _)
\* `for x, y in positions` of the planar try_add_panel for one rotation_count
PlanarPositionLoop(s, positions, i, p, rotation_count, b) ==
    IF i > Len(positions) THEN b
    ELSE LET x == positions[i][1]
             y == positions[i][2]
             waste == y + get_placed_height(p)
         IN  IF Planar_fits(s, p, x, y) /\ (~b.found \/ waste < b.score)
             THEN PlanarPositionLoop(s, positions, i + 1, p, rotation_count,
                      [found |-> TRUE, x |-> x, y |-> y,
                       rotated |-> rotation_count, score |-> waste])
             ELSE PlanarPositionLoop(s, positions, i + 1, p, rotation_count, b)

RECURSIVE PlanarRotationLoop(_, _, _, _, _)
\* `for rotation_count in range(4)`: returns <<best, panel after the loop>>
PlanarRotationLoop(s, positions, rotation_count, p, b) ==
    IF rotation_count > 3 THEN <<b, p>>
    ELSE With(PlanarPositionLoop(s, positions, 1, p, rotation_count, b), LAMBDA b1 :
            PlanarRotationLoop(s, positions, rotation_count + 1,
                               PlanarPanel_rotate(p), b1))

PlanarNoBest == [found |-> FALSE, x |-> 0, y |-> 0, rotated |-> 0, score |-> 0]

\* Sheet.try_add_panel of planar: (success, x, y, best_rotated) and the panel
\* object after the call
Planar_try_add_panel(s, p) ==
    With(PlanarRotationLoop(s, SamplePositions(get_candidate_positions(s)), 0, p,
                            PlanarNoBest), LAMBDA r :
        IF ~r[1].found
        THEN [success |-> FALSE, x |-> 0, y |-> 0, rotated |-> 0, panel |-> r[2]]
        ELSE [success |-> TRUE, x |-> r[1].x, y |-> r[1].y,
              rotated |-> r[1].rotated, panel |-> r[2]])

\* Sheet.add of planar
Planar_add(s, p) ==
    With(Planar_try_add_panel(s, p), LAMBDA t :
        IF t.success
        THEN With(RotateTimes(t.panel,
                      (t.rotated - (t.panel.rotation_angle \div 90)) % 4), LAMBDA q :
                [success |-> TRUE, sheet |-> place(s, q, t.x, t.y), panel |-> q])
        ELSE [success |-> FALSE, sheet |-> s, panel |-> t.panel])

------------------------------------------------------------------------------
(* nest_panels: helpers *)

\* avg_panel_size = (total_area / len(panels)) ** 0.5, kept as the pair
Avg == [total |-> SumSeq([i \in 1..Len(panels) |-> panels[i].area]),
        n |-> Len(panels)]

\* v2 sort_panels(panels, 'mixed'): key area * (1 + 0.2 * aspect_ratio),
\* reverse=True; key(a) > key(b) with both sides times 5 * min(a) * min(b)
MixedBefore(a, b) ==
    a.area * (5 * Min(a.w, a.h) + Max(a.w, a.h)) * Min(b.w, b.h)
      > b.area * (5 * Min(b.w, b.h) + Max(b.w, b.h)) * Min(a.w, a.h)

\* hybrid: key (p.h, p.w), reverse=True
HeightBefore(a, b) == a.h > b.h \/ (a.h = b.h /\ a.w > b.w)

sort_panels(ps) ==
    IF engine = "v2" THEN Sorted(ps, MixedBefore) ELSE Sorted(ps, HeightBefore)

\* mutant: only the first placed index is popped
RemovePlacedIdx_first_only(rem, placed) ==
    LET Keep(i) == placed = <<>> \/ i # placed[1] IN KeepIdx(rem, Keep)

\* remaining.pop(i) for every i of placed_indices
RemovePlacedIdx(rem, placed) ==
    LET Keep(i) == i \notin Range(placed) IN KeepIdx(rem, Keep)

test_limit(rem) ==
    IF engine = "v2"
    THEN IF Len(rem) > TEST_PANEL_THRESHOLD THEN MAX_TEST_PANELS_HIGH
         ELSE Min(Len(rem), MAX_TEST_PANELS_LOW)
    ELSE Min(Len(rem), IF Len(rem) > 50 THEN 20 ELSE Len(rem))

\* the (sheet_w, sheet_h, type_id) configurations in the order the two nested
\* for loops evaluate them
Configurations ==
    Concat([k \in 1..Len(sheet_sizes) |->
        LET w == sheet_sizes[k][1]
            h == sheet_sizes[k][2]
            t == sheet_sizes[k][3]
            Evaluated(c) == ~(c[1] = c[2] /\ <<w, h>> # <<c[1], c[2]>>)
        IN  SelectSeq(<< <<w, h, t>>, <<h, w, t>> >>, Evaluated)])

RECURSIVE TrialLoop(_, _, _, _, _)
\* `for panel in remaining[:test_limit]` on one test sheet: try_add_panel
\* does not place, so the test sheet stays as constructed.
\* Returns <<test_area, test_count>>.
TrialLoop(test_sheet, prefix, i, test_area, test_count) ==
    IF i > Len(prefix) THEN <<test_area, test_count>>
    ELSE With(Panel_copy(prefix[i]), LAMBDA panel_copy :
         With(try_add_panel(test_sheet, panel_copy), LAMBDA t :
            IF t.success
            THEN With(<<test_area + t.panel.area, test_count + 1>>, LAMBDA taken :
                    IF 100 * taken[1] > 90 * test_sheet.w * test_sheet.h
                    THEN taken
                    ELSE TrialLoop(test_sheet, prefix, i + 1, taken[1], taken[2]))
            ELSE TrialLoop(test_sheet, prefix, i + 1, test_area, test_count)))

\* the score of a configuration as the fraction <<numerator, denominator>>
ConfigScore(c, rem, trial) ==
    LET test_area == trial[1]
        test_count == trial[2]
        sheet_area == c[1] * c[2]
        d == Max(1, Min(Len(rem), test_limit(rem)))
        weighted == (2 * test_area * d + test_count * sheet_area) * test_count
    IN  IF engine = "v2"
        THEN <<1000 * weighted - sheet_area * sheet_area * d, 1000 * sheet_area * d>>
        ELSE <<weighted, sheet_area * d>>

RECURSIVE FracLess(_, _, _, _)
\* a/b < c/d for b > 0 and d > 0, exact, by the integer parts and then the
\* remainders (no product of two large numbers is formed)
FracLess(a, b, c, d) ==
    With(<<a \div b, c \div d, a % b, c % d>>, LAMBDA q :
        IF q[1] # q[2] THEN q[1] < q[2]
        ELSE IF q[4] = 0 THEN FALSE
        ELSE IF q[3] = 0 THEN TRUE
        ELSE FracLess(d, q[4], b, q[3]))

\* score > best_score
FracGreater(a, b) == FracLess(b[1], b[2], a[1], a[2])

RECURSIVE ConfigLoop_accepts_empty(_, _, _, _, _)
\* mutant: a configuration that took no panel can be selected
ConfigLoop_accepts_empty(configs, k, rem, best, best_score) ==
    IF k > Len(configs) THEN best
    ELSE With(configs[k], LAMBDA c :
         With(Sheet(c[1], c[2], c[3], Avg), LAMBDA test_sheet :
         With(Take(rem, test_limit(rem)), LAMBDA prefix :
         With(TrialLoop(test_sheet, prefix, 1, 0, 0), LAMBDA trial :
         With(ConfigScore(c, rem, trial), LAMBDA score :
            IF FracGreater(score, best_score)
            THEN ConfigLoop_accepts_empty(configs, k + 1, rem, c, score)
            ELSE ConfigLoop_accepts_empty(configs, k + 1, rem, best, best_score))))))

RECURSIVE ConfigLoop_last_tie_wins(_, _, _, _, _)
\* mutant: a configuration that equals the best score replaces the best
ConfigLoop_last_tie_wins(configs, k, rem, best, best_score) ==
    IF k > Len(configs) THEN best
    ELSE With(configs[k], LAMBDA c :
         With(Sheet(c[1], c[2], c[3], Avg), LAMBDA test_sheet :
         With(Take(rem, test_limit(rem)), LAMBDA prefix :
         With(TrialLoop(test_sheet, prefix, 1, 0, 0), LAMBDA trial :
         With(ConfigScore(c, rem, trial), LAMBDA score :
            IF trial[2] > 0 /\ ~FracGreater(best_score, score)
            THEN ConfigLoop_last_tie_wins(configs, k + 1, rem, c, score)
            ELSE ConfigLoop_last_tie_wins(configs, k + 1, rem, best, best_score))))))

RECURSIVE ConfigLoop(_, _, _, _, _)
\* the scoring loops: returns best_config
ConfigLoop(configs, k, rem, best, best_score) ==
    IF k > Len(configs) THEN best
    ELSE With(configs[k], LAMBDA c :
         With(Sheet(c[1], c[2], c[3], Avg), LAMBDA test_sheet :
         With(Take(rem, test_limit(rem)), LAMBDA prefix :
         With(TrialLoop(test_sheet, prefix, 1, 0, 0), LAMBDA trial :
         With(ConfigScore(c, rem, trial), LAMBDA score :
            IF trial[2] > 0 /\ FracGreater(score, best_score)
            THEN ConfigLoop(configs, k + 1, rem, c, score)
            ELSE ConfigLoop(configs, k + 1, rem, best, best_score))))))

AreaLess(a, b) == a[1] * a[2] < b[1] * b[2]

\* the panel_copy the last resort hands to new_sheet.add for stock (w, h), if any
LastResortPanel(panel, w, h) ==
    IF engine = "v2"
    THEN LET f == fits_in_rect(panel, w, h)
         IN  IF ~f[1] THEN None
             ELSE IF f[2] THEN <<Panel_rotate(Panel_copy(panel))>>
             ELSE <<Panel_copy(panel)>>
    ELSE IF panel.w <= w /\ panel.h <= h THEN <<Panel_copy(panel)>>
         ELSE IF panel.h <= w /\ panel.w <= h THEN <<Panel_rotate(Panel_copy(panel))>>
         ELSE None

RECURSIVE LastResortLoop_keeps_sheet(_, _, _)
\* mutant: the sheet constructed for the panel is returned although add failed
LastResortLoop_keeps_sheet(stock, k, panel) ==
    IF k > Len(stock) THEN None
    ELSE With(LastResortPanel(panel, stock[k][1], stock[k][2]), LAMBDA panel_copy :
            IF panel_copy = None THEN LastResortLoop_keeps_sheet(stock, k + 1, panel)
            ELSE With(Sheet(stock[k][1], stock[k][2], stock[k][3], Avg),
                      LAMBDA fresh_sheet :
                 With(add(fresh_sheet, panel_copy[1]), LAMBDA r :
                    IF r.success THEN <<r.sheet>> ELSE <<fresh_sheet>>)))

RECURSIVE LastResortLoop(_, _, _)
\* the for loop of the last resort: the sheet that took the panel, if any
LastResortLoop(stock, k, panel) ==
    IF k > Len(stock) THEN None
    ELSE With(LastResortPanel(panel, stock[k][1], stock[k][2]), LAMBDA panel_copy :
            IF panel_copy = None THEN LastResortLoop(stock, k + 1, panel)
            ELSE With(Sheet(stock[k][1], stock[k][2], stock[k][3], Avg),
                      LAMBDA fresh_sheet :
                 With(add(fresh_sheet, panel_copy[1]), LAMBDA r :
                    IF r.success THEN <<r.sheet>>
                    ELSE LastResortLoop(stock, k + 1, panel))))

------------------------------------------------------------------------------
(* Inputs *)

Engines == {"v2", "hybrid"}
Kerfs == {0, 1}

\* stock lists: one oblong size, a square and a flippable oblong size, and a
\* size whose area term outweighs the fill term of the v2 score
StockLists ==
    { << <<4, 3, 0>> >>,
      << <<3, 3, 0>>, <<2, 5, 1>> >>,
      << <<50, 40, 0>> >> }

PanelDims == {<<2, 1>>, <<1, 4>>, <<2, 2>>, <<5, 1>>, <<30, 20>>}

RECURSIVE ListsUpTo(_)
\* the lists of panel dimensions of length <= n
ListsUpTo(n) ==
    IF n = 0 THEN {<<>>}
    ELSE LET shorter == ListsUpTo(n - 1)
         IN  shorter \cup {Append(l, d) : l \in shorter, d \in PanelDims}

\* "Create panels": Panel(w, h, i, tag) for the i-th pair (ids from 0)
MakePanels(dims) == [i \in 1..Len(dims) |-> Panel(dims[i][1], dims[i][2], i - 1)]

------------------------------------------------------------------------------
(* nest_panels as a state machine *)

Init ==
    /\ engine \in Engines
    /\ kerf \in Kerfs
    /\ sheet_sizes \in StockLists
    /\ panels \in {MakePanels(d) : d \in ListsUpTo(MaxPanels)}
    /\ pc = "start"
    /\ sheets = <<>>
    /\ remaining = <<>>
    /\ iteration = 0
    /\ placed_indices = <<>>
    /\ sheet_placed = <<>>
    /\ si = 0
    /\ pi = 0
    /\ new_sheet = None
    /\ best_config = None
    /\ warned = {}
    /\ exit = "running"
    /\ sh = None
    /\ cur = None
    /\ cur0 = None
    /\ last = None

\* entry of nest_panels up to the while loop
Start ==
    /\ pc = "start"
    /\ IF panels = <<>>
       THEN /\ pc' = "done"
            /\ exit' = "no_panels"
            /\ UNCHANGED remaining
       ELSE /\ remaining' = sort_panels(panels)
            /\ pc' = "while"
            /\ UNCHANGED exit
    /\ sheets' = <<>>
    /\ iteration' = 0
    /\ UNCHANGED <<placed_indices, sheet_placed, si, pi, new_sheet, best_config, warned>>
    /\ UNCHANGED <<inp, api>>

\* `while remaining:` and the head of the loop body
WhileTest ==
    /\ pc = "while"
    /\ IF remaining = <<>>
       THEN /\ pc' = "done"
            /\ exit' = "empty"
            /\ UNCHANGED <<iteration, placed_indices, si, pi>>
       ELSE /\ iteration' = iteration + 1
            /\ placed_indices' = <<>>
            /\ si' = 1
            /\ pi' = 0
            /\ pc' = "existing"
            /\ UNCHANGED exit
    /\ UNCHANGED <<sheets, remaining, sheet_placed, new_sheet, best_config, warned>>
    /\ UNCHANGED <<inp, api>>

\* `for sheet in sheets:` advances to the next sheet, or leaves the loop
ExistingNextSheet ==
    /\ pc = "existing"
    /\ pi = 0
    /\ IF si > Len(sheets)
       THEN /\ pc' = "remove"
            /\ UNCHANGED <<si, pi, sheet_placed>>
       ELSE IF should_stop_adding(sheets[si])
            THEN /\ si' = si + 1
                 /\ UNCHANGED <<pc, pi, sheet_placed>>
            ELSE /\ sheet_placed' = <<>>
                 /\ pi' = 1
                 /\ UNCHANGED <<pc, si>>
    /\ UNCHANGED <<sheets, remaining, iteration, placed_indices, new_sheet,
                   best_config, warned, exit>>
    /\ UNCHANGED <<inp, api>>

\* one pass of `for i, panel in enumerate(remaining):` on an open sheet
ExistingAdd ==
    /\ pc = "existing"
    /\ pi \in 1..Len(remaining)
    /\ IF pi \in Range(placed_indices)
       THEN /\ pi' = pi + 1
            /\ UNCHANGED <<sheets, remaining, sheet_placed>>
       ELSE \E r \in {add(sheets[si], Panel_copy(remaining[pi]))} :
                IF r.success
                THEN /\ sheets' = [sheets EXCEPT ![si] = r.sheet]
                     /\ remaining' = [remaining EXCEPT ![pi] = r.panel]
                     /\ sheet_placed' = Append(sheet_placed, pi)
                     /\ pi' = IF should_stop_adding(r.sheet)
                              THEN Len(remaining) + 1 ELSE pi + 1
                ELSE /\ pi' = pi + 1
                     /\ UNCHANGED <<sheets, remaining, sheet_placed>>
    /\ UNCHANGED <<pc, iteration, placed_indices, si, new_sheet, best_config,
                   warned, exit>>
    /\ UNCHANGED <<inp, api>>

\* placed_indices.extend(sheet_placed)
ExistingEndSheet ==
    /\ pc = "existing"
    /\ pi > Len(remaining)
    /\ placed_indices' = placed_indices \o sheet_placed
    /\ si' = si + 1
    /\ pi' = 0
    /\ UNCHANGED <<pc, sheets, remaining, iteration, sheet_placed, new_sheet,
                   best_config, warned, exit>>
    /\ UNCHANGED <<inp, api>>

\* "Remove placed panels" and `if not remaining: break`
RemovePlaced ==
    /\ pc = "remove"
    /\ remaining' = RemovePlacedIdx(remaining, placed_indices)
    /\ IF remaining' = <<>>
       THEN pc' = "done" /\ exit' = "empty"
       ELSE pc' = "select" /\ UNCHANGED exit
    /\ UNCHANGED <<sheets, iteration, placed_indices, sheet_placed, si, pi,
                   new_sheet, best_config, warned>>
    /\ UNCHANGED <<inp, api>>

\* the configuration scoring and `if best_config:`
SelectConfig ==
    /\ pc = "select"
    /\ best_config' = ConfigLoop(Configurations, 1, remaining, None, <<-1, 1>>)
    /\ IF best_config' # None
       THEN /\ new_sheet' = <<Sheet(best_config'[1], best_config'[2],
                                    best_config'[3], Avg)>>
            /\ placed_indices' = <<>>
            /\ pi' = 1
            /\ pc' = "fill"
       ELSE /\ pc' = "last"
            /\ UNCHANGED <<new_sheet, placed_indices, pi>>
    /\ UNCHANGED <<sheets, remaining, iteration, sheet_placed, si, warned, exit>>
    /\ UNCHANGED <<inp, api>>

\* one pass of `for i, panel in enumerate(remaining):` on the new sheet
NewSheetAdd ==
    /\ pc = "fill"
    /\ pi \in 1..Len(remaining)
    /\ \E r \in {add(new_sheet[1], Panel_copy(remaining[pi]))} :
           IF r.success
           THEN /\ new_sheet' = <<r.sheet>>
                /\ remaining' = [remaining EXCEPT ![pi] = r.panel]
                /\ placed_indices' = Append(placed_indices, pi)
                /\ pi' = IF should_stop_adding(r.sheet)
                         THEN Len(remaining) + 1 ELSE pi + 1
           ELSE /\ pi' = pi + 1
                /\ UNCHANGED <<new_sheet, remaining, placed_indices>>
    /\ UNCHANGED <<pc, sheets, iteration, sheet_placed, si, best_config, warned, exit>>
    /\ UNCHANGED <<inp, api>>

\* `if placed_indices:` after the new sheet was filled; the local new_sheet
\* is not read again before it is rebound
NewSheetClose ==
    /\ pc = "fill"
    /\ pi > Len(remaining)
    /\ IF placed_indices # <<>>
       THEN /\ sheets' = Append(sheets, new_sheet[1])
            /\ remaining' = RemovePlacedIdx(remaining, placed_indices)
            /\ pc' = "safety"
            /\ UNCHANGED exit
       ELSE /\ pc' = "done"
            /\ exit' = "abort"
            /\ UNCHANGED <<sheets, remaining>>
    /\ new_sheet' = None
    /\ UNCHANGED <<iteration, placed_indices, sheet_placed, si, pi, best_config, warned>>
    /\ UNCHANGED <<inp, api>>

\* the last resort branch
LastResort ==
    /\ pc = "last"
    /\ \E got \in {LastResortLoop(Sorted(sheet_sizes, AreaLess), 1, remaining[1])} :
           IF got # None
           THEN sheets' = Append(sheets, got[1]) /\ UNCHANGED warned
           ELSE warned' = warned \cup {remaining[1].id} /\ UNCHANGED sheets
    /\ remaining' = Tail(remaining)
    /\ pc' = "safety"
    /\ UNCHANGED <<iteration, placed_indices, sheet_placed, si, pi, new_sheet,
                   best_config, exit>>
    /\ UNCHANGED <<inp, api>>

\* "Safety check" at the end of the loop body
SafetyCheck ==
    /\ pc = "safety"
    /\ IF iteration > Len(panels) * 2
       THEN pc' = "done" /\ exit' = "cap"
       ELSE pc' = "while" /\ UNCHANGED exit
    /\ UNCHANGED <<sheets, remaining, iteration, placed_indices, sheet_placed,
                   si, pi, new_sheet, best_config, warned>>
    /\ UNCHANGED <<inp, api>>

Next ==
    \/ Start
    \/ WhileTest
    \/ ExistingNextSheet
    \/ ExistingAdd
    \/ ExistingEndSheet
    \/ RemovePlaced
    \/ SelectConfig
    \/ NewSheetAdd
    \/ NewSheetClose
    \/ LastResort
    \/ SafetyCheck

Spec == Init /\ [][Next]_vars

\* (w, h) of the panels of the runs followed to their return: one that goes
\* upright only on the flipped or second stock, a square, one too long for the
\* small stock sizes
FairDims == {<<1, 4>>, <<2, 2>>, <<5, 1>>}

FairInit ==
    /\ Init
    /\ \A i \in 1..Len(panels) : <<panels[i].orig_w, panels[i].orig_h>> \in FairDims

\* the interpreter runs nest_panels to its return
FairSpec == FairInit /\ [][Next]_vars /\ WF_vars(Next)

\* the worked inputs of nest_panels as <<sheet_sizes, (w, h) of the panels>>:
\* three panels for one 100 x 100 sheet, a panel longer than the only stock
\* (alone, and after a panel that fits), two panels that each fill the stock,
\* a panel for the large one of a small and a large stock, two panels for one
\* sheet followed by two that are too long for it
Scenarios ==
    { << << <<100, 100, 0>> >>, << <<60, 40>>, <<40, 60>>, <<50, 50>> >> >>,
      << << <<10, 10, 0>> >>, << <<11, 5>> >> >>,
      << << <<10, 10, 0>> >>, << <<5, 5>>, <<11, 5>> >> >>,
      << << <<30, 20, 0>> >>, << <<30, 20>>, <<20, 30>> >> >>,
      << << <<3, 3, 0>>, <<40, 30, 1>> >>, << <<5, 5>> >> >>,
      << << <<100, 100, 0>> >>,
         << <<60, 40>>, <<40, 60>>, <<110, 5>>, <<105, 5>> >> >> }

\* nest_panels is called with a worked input
ScenarioInit ==
    /\ engine \in Engines
    /\ kerf \in Kerfs
    /\ \E sc \in Scenarios :
           /\ sheet_sizes = sc[1]
           /\ panels = MakePanels(sc[2])
    /\ pc = "start"
    /\ sheets = <<>>
    /\ remaining = <<>>
    /\ iteration = 0
    /\ placed_indices = <<>>
    /\ sheet_placed = <<>>
    /\ si = 0
    /\ pi = 0
    /\ new_sheet = None
    /\ best_config = None
    /\ warned = {}
    /\ exit = "running"
    /\ sh = None
    /\ cur = None
    /\ cur0 = None
    /\ last = None

\* the worked inputs next to the runs of FairInit
ScenarioSpec == (ScenarioInit \/ FairInit) /\ [][Next]_vars

------------------------------------------------------------------------------
(* One Sheet and one panel object driven through the public methods *)

ApiEngines == {"v2", "hybrid", "planar"}

\* the sheets the methods are called on: <<w, h>>
ApiSheets == {<<4, 3>>}

\* (w, h) of the rectangles handed to Panel(...)
ApiDims == {<<2, 1>>, <<3, 1>>, <<2, 2>>, <<1, 4>>, <<5, 1>>}

\* boundary polylines handed to PlanarPanel(...), closed (the first vertex is
\* repeated at the end): rectangles and a triangle
Rectangle(w, h) == << <<0, 0>>, <<w, 0>>, <<w, h>>, <<0, h>>, <<0, 0>> >>
ApiSurfaces ==
    {Rectangle(2, 1), Rectangle(2, 2), Rectangle(5, 1),
     << <<0, 0>>, <<4, 0>>, <<0, 1>>, <<0, 0>> >>}

\* avg_panel_size handed to Sheet(...): 2
ApiAvg == [total |-> 4, n |-> 1]

NoCall == [op |-> "none", success |-> FALSE, x |-> 0, y |-> 0, rotated |-> FALSE]

SheetInit ==
    /\ engine \in ApiEngines
    /\ kerf \in Kerfs
    /\ sheet_sizes = <<>>
    /\ panels = <<>>
    /\ pc = "api"
    /\ sheets = <<>>
    /\ remaining = <<>>
    /\ iteration = 0
    /\ placed_indices = <<>>
    /\ sheet_placed = <<>>
    /\ si = 0
    /\ pi = 0
    /\ new_sheet = None
    /\ best_config = None
    /\ warned = {}
    /\ exit = "running"
    /\ \E d \in ApiSheets : sh = <<Sheet(d[1], d[2], 0, ApiAvg)>>
    /\ cur = None
    /\ cur0 = None
    /\ last = NoCall

\* panel = Panel(w, h, id): the id is the number of add calls made so far
NewPanel ==
    /\ pc = "api"
    /\ engine # "planar"
    /\ iteration < MaxAdds
    /\ \E d \in ApiDims :
           /\ cur' = <<Panel(d[1], d[2], iteration)>>
           /\ cur0' = <<d[1], d[2]>>
    /\ last' = NoCall
    /\ UNCHANGED <<sh, inp, drv>>

\* panel = PlanarPanel(surface, id)
NewPlanarPanel ==
    /\ pc = "api"
    /\ engine = "planar"
    /\ iteration < MaxAdds
    /\ \E surface \in ApiSurfaces :
           /\ cur' = <<PlanarPanel(surface, iteration)>>
           /\ cur0' = <<cur'[1].w, cur'[1].h>>
    /\ last' = NoCall
    /\ UNCHANGED <<sh, inp, drv>>

\* panel.rotate()
RotateCur ==
    /\ pc = "api"
    /\ cur # None
    /\ cur' = IF engine = "planar" THEN <<PlanarPanel_rotate(cur[1])>>
              ELSE <<Panel_rotate(cur[1])>>
    /\ last' = [NoCall EXCEPT !.op = "rotate"]
    /\ UNCHANGED <<sh, cur0, inp, drv>>

\* sheet.try_add_panel(panel) of v2 and hybrid
TryAddCur ==
    /\ pc = "api"
    /\ engine # "planar"
    /\ cur # None
    /\ \E r \in {try_add_panel(sh[1], cur[1])} :
           /\ cur' = <<r.panel>>
           /\ last' = [op |-> "try", success |-> r.success, x |-> r.x, y |-> r.y,
                       rotated |-> r.rotated]
    /\ UNCHANGED <<sh, cur0, inp, drv>>

\* sheet.try_add_panel(panel) of planar
PlanarTryAddCur ==
    /\ pc = "api"
    /\ engine = "planar"
    /\ cur # None
    /\ \E r \in {Planar_try_add_panel(sh[1], cur[1])} :
           /\ cur' = <<r.panel>>
           /\ last' = [op |-> "try", success |-> r.success, x |-> r.x, y |-> r.y,
                       rotated |-> r.rotated]
    /\ UNCHANGED <<sh, cur0, inp, drv>>

\* sheet.add(panel) of v2 and hybrid; a placed panel object belongs to the
\* sheet, and the caller goes on with a new one
AddCur ==
    /\ pc = "api"
    /\ engine # "planar"
    /\ cur # None
    /\ iteration < MaxAdds
    /\ \E r \in {add(sh[1], cur[1])} :
           /\ sh' = <<r.sheet>>
           /\ cur' = IF r.success THEN None ELSE <<r.panel>>
           /\ last' = [op |-> "add", success |-> r.success, x |-> 0, y |-> 0,
                       rotated |-> FALSE]
    /\ iteration' = iteration + 1
    /\ UNCHANGED <<cur0, inp, pc, sheets, remaining, placed_indices, sheet_placed,
                   si, pi, new_sheet, best_config, warned, exit>>

\* sheet.add(panel) of planar
PlanarAddCur ==
    /\ pc = "api"
    /\ engine = "planar"
    /\ cur # None
    /\ iteration < MaxAdds
    /\ \E r \in {Planar_add(sh[1], cur[1])} :
           /\ sh' = <<r.sheet>>
           /\ cur' = IF r.success THEN None ELSE <<r.panel>>
           /\ last' = [op |-> "add", success |-> r.success, x |-> 0, y |-> 0,
                       rotated |-> FALSE]
    /\ iteration' = iteration + 1
    /\ UNCHANGED <<cur0, inp, pc, sheets, remaining, placed_indices, sheet_placed,
                   si, pi, new_sheet, best_config, warned, exit>>

SheetNext ==
    \/ NewPanel
    \/ NewPlanarPanel
    \/ RotateCur
    \/ TryAddCur
    \/ PlanarTryAddCur
    \/ AddCur
    \/ PlanarAddCur

SheetSpec == SheetInit /\ [][SheetNext]_vars

------------------------------------------------------------------------------
(* test_nesting.py: the beam saw (guillotine) algorithm *)

\* dataclass Panel of test_nesting.py (tag is never read)
SawPanel(width, height, rotation_constraint, grain_direction, id) ==
    [width |-> width, height |-> height,
     rotation_constraint |-> rotation_constraint,
     grain_direction |-> grain_direction, id |-> id]

SawPanel_area(p) == p.width * p.height
max_dimension(p) == Max(p.width, p.height)

PlacedPanel(panel, x, y, width, height, rotation_degrees, final_grain_direction, sheet_index) ==
    [panel |-> panel, x |-> x, y |-> y, width |-> width, height |-> height,
     rotation_degrees |-> rotation_degrees,
     final_grain_direction |-> final_grain_direction,
     sheet_index |-> sheet_index]

SubSheet(x, y, width, height, level, parent_cut_id, sheet_index) ==
    [x |-> x, y |-> y, width |-> width, height |-> height, level |-> level,
     parent_cut_id |-> parent_cut_id, sheet_index |-> sheet_index]

SubSheet_area(s) == s.width * s.height

\* panel_width <= self.width + 1e-6 and panel_height <= self.height + 1e-6
can_fit(s, panel_width, panel_height) ==
    panel_width <= s.width /\ panel_height <= s.height

CutLine(id, orientation, position, start, end, kerf_thickness, sheet_index) ==
    [id |-> id, orientation |-> orientation, position |-> position,
     start |-> start, end |-> end, kerf_thickness |-> kerf_thickness,
     sheet_index |-> sheet_index]

PanelPlacement(panel, sub_sheet, rotated, width, height, final_grain_direction) ==
    [panel |-> panel, sub_sheet |-> sub_sheet, rotated |-> rotated,
     width |-> width, height |-> height,
     final_grain_direction |-> final_grain_direction]

\* BeamSawNestingAlgorithm.__init__
BeamSawNestingAlgorithm(sheet_width, sheet_height, sheet_grain, kerf_thickness, preferred_cut, sort_strategy) ==
    [sheet_width |-> sheet_width, sheet_height |-> sheet_height,
     sheet_grain |-> sheet_grain, kerf_thickness |-> kerf_thickness,
     preferred_cut_orientation |-> preferred_cut, sort_strategy |-> sort_strategy,
     placed_panels |-> <<>>, remaining_sub_sheets |-> <<>>, cut_lines |-> <<>>,
     current_sheet_index |-> 0, next_cut_id |-> 0]

MaxDimensionLess(a, b) == max_dimension(a) < max_dimension(b)
MaxDimensionGreater(a, b) == max_dimension(a) > max_dimension(b)
SawAreaLess(a, b) == SawPanel_area(a) < SawPanel_area(b)
SawAreaGreater(a, b) == SawPanel_area(a) > SawPanel_area(b)

_sort_panels(self, ps) ==
    CASE self.sort_strategy = "LARGEST_FIRST" -> Sorted(ps, MaxDimensionGreater)
      [] self.sort_strategy = "SMALLEST_FIRST" -> Sorted(ps, MaxDimensionLess)
      [] self.sort_strategy = "AREA_DESCENDING" -> Sorted(ps, SawAreaGreater)
      [] self.sort_strategy = "AREA_ASCENDING" -> Sorted(ps, SawAreaLess)
      [] OTHER -> ps

_add_new_sheet(self) ==
    With(IF Len(self.remaining_sub_sheets) > 0 \/ Len(self.placed_panels) > 0
         THEN self.current_sheet_index + 1
         ELSE self.current_sheet_index, LAMBDA index :
        [self EXCEPT
            !.current_sheet_index = index,
            !.remaining_sub_sheets =
                Append(@, SubSheet(0, 0, self.sheet_width, self.sheet_height,
                                   0, -1, index))])

\* the final grain direction as <<name>>, or None
_validate_grain_direction(self, panel, rotated) ==
    LET is_horizontal == \/ ~rotated /\ panel.width >= panel.height
                         \/ rotated /\ panel.height >= panel.width
    IN  CASE panel.grain_direction = "MATCH_SHEET" ->
                IF self.sheet_grain = "HORIZONTAL" /\ ~is_horizontal THEN None
                ELSE IF self.sheet_grain = "VERTICAL" /\ is_horizontal THEN None
                ELSE IF self.sheet_grain = "HORIZONTAL" THEN <<"Horizontal">>
                ELSE <<"Vertical">>
          [] panel.grain_direction = "FIXED_HORIZONTAL" ->
                IF ~is_horizontal THEN None ELSE <<"Horizontal">>
          [] panel.grain_direction = "FIXED_VERTICAL" ->
                IF is_horizontal THEN None ELSE <<"Vertical">>
          [] OTHER -> <<"Unknown">>

\* mutant: the grain is recorded but never refuses a placement
_can_place_panel_in_sub_sheet_any_grain(self, panel, sub_sheet, rotate) ==
    LET panel_w == IF rotate THEN panel.height ELSE panel.width
        panel_h == IF rotate THEN panel.width ELSE panel.height
        final_grain_dir ==
            CASE panel.grain_direction = "MATCH_SHEET" ->
                    IF self.sheet_grain = "HORIZONTAL" THEN "Horizontal" ELSE "Vertical"
              [] panel.grain_direction = "FIXED_HORIZONTAL" -> "Horizontal"
              [] OTHER -> "Vertical"
    IN  IF ~can_fit(sub_sheet, panel_w, panel_h) THEN None
        ELSE <<PanelPlacement(panel, sub_sheet, rotate, panel_w, panel_h,
                              final_grain_dir)>>

\* the PanelPlacement as <<placement>>, or None
_can_place_panel_in_sub_sheet(self, panel, sub_sheet, rotate) ==
    LET panel_w == IF rotate THEN panel.height ELSE panel.width
        panel_h == IF rotate THEN panel.width ELSE panel.height
        final_grain_dir == _validate_grain_direction(self, panel, rotate)
    IN  IF ~can_fit(sub_sheet, panel_w, panel_h) THEN None
        ELSE IF final_grain_dir = None THEN None
        ELSE <<PanelPlacement(panel, sub_sheet, rotate, panel_w, panel_h,
                              final_grain_dir[1])>>

\* the cut through position, with the sub-sheet it leaves if it leaves one;
\* self.cut_lines, self.next_cut_id and self.remaining_sub_sheets are extended
HorizontalCut(self, sub_sheet, used_height, remaining_height, end, width) ==
    IF remaining_height > 0
    THEN [self EXCEPT
            !.cut_lines = Append(@, CutLine(self.next_cut_id, "HORIZONTAL",
                              sub_sheet.y + used_height, sub_sheet.x, end,
                              self.kerf_thickness, sub_sheet.sheet_index)),
            !.next_cut_id = @ + 1,
            !.remaining_sub_sheets =
                Append(@, SubSheet(sub_sheet.x,
                                   sub_sheet.y + used_height + self.kerf_thickness,
                                   width, remaining_height, sub_sheet.level + 1,
                                   self.next_cut_id, sub_sheet.sheet_index))]
    ELSE self

VerticalCut(self, sub_sheet, used_width, remaining_width, end, height) ==
    IF remaining_width > 0
    THEN [self EXCEPT
            !.cut_lines = Append(@, CutLine(self.next_cut_id, "VERTICAL",
                              sub_sheet.x + used_width, sub_sheet.y, end,
                              self.kerf_thickness, sub_sheet.sheet_index)),
            !.next_cut_id = @ + 1,
            !.remaining_sub_sheets =
                Append(@, SubSheet(sub_sheet.x + used_width + self.kerf_thickness,
                                   sub_sheet.y, remaining_width, height,
                                   sub_sheet.level + 1, self.next_cut_id,
                                   sub_sheet.sheet_index))]
    ELSE self

\* mutant: after a horizontal first cut the right sub-sheet runs the full
\* height of the parent
_perform_guillotine_cut_full_height(self, sub_sheet, used_width, used_height) ==
    LET remaining_width == sub_sheet.width - used_width - self.kerf_thickness
        remaining_height == sub_sheet.height - used_height - self.kerf_thickness
        cut_horizontal_first ==
            IF remaining_width # remaining_height
            THEN remaining_height > remaining_width
            ELSE self.preferred_cut_orientation = "HORIZONTAL"
    IN  IF cut_horizontal_first
        THEN VerticalCut(
                 HorizontalCut(self, sub_sheet, used_height, remaining_height,
                               sub_sheet.x + sub_sheet.width, sub_sheet.width),
                 sub_sheet, used_width, remaining_width,
                 sub_sheet.y + sub_sheet.height, sub_sheet.height)
        ELSE HorizontalCut(
                 VerticalCut(self, sub_sheet, used_width, remaining_width,
                             sub_sheet.y + sub_sheet.height, sub_sheet.height),
                 sub_sheet, used_height, remaining_height,
                 sub_sheet.x + used_width, used_width)

\* mutant: the kerf is not taken off the residual width and height
_perform_guillotine_cut_without_kerf(self, sub_sheet, used_width, used_height) ==
    LET remaining_width == sub_sheet.width - used_width
        remaining_height == sub_sheet.height - used_height
        cut_horizontal_first ==
            IF remaining_width # remaining_height
            THEN remaining_height > remaining_width
            ELSE self.preferred_cut_orientation = "HORIZONTAL"
    IN  IF cut_horizontal_first
        THEN VerticalCut(
                 HorizontalCut(self, sub_sheet, used_height, remaining_height,
                               sub_sheet.x + sub_sheet.width, sub_sheet.width),
                 sub_sheet, used_width, remaining_width,
                 sub_sheet.y + used_height, used_height)
        ELSE HorizontalCut(
                 VerticalCut(self, sub_sheet, used_width, remaining_width,
                             sub_sheet.y + sub_sheet.height, sub_sheet.height),
                 sub_sheet, used_height, remaining_height,
                 sub_sheet.x + used_width, used_width)

\* mutant: the preferred orientation always decides the first cut
_perform_guillotine_cut_preferred_first(self, sub_sheet, used_width, used_height) ==
    LET remaining_width == sub_sheet.width - used_width - self.kerf_thickness
        remaining_height == sub_sheet.height - used_height - self.kerf_thickness
        cut_horizontal_first == self.preferred_cut_orientation = "HORIZONTAL"
    IN  IF cut_horizontal_first
        THEN VerticalCut(
                 HorizontalCut(self, sub_sheet, used_height, remaining_height,
                               sub_sheet.x + sub_sheet.width, sub_sheet.width),
                 sub_sheet, used_width, remaining_width,
                 sub_sheet.y + used_height, used_height)
        ELSE HorizontalCut(
                 VerticalCut(self, sub_sheet, used_width, remaining_width,
                             sub_sheet.y + sub_sheet.height, sub_sheet.height),
                 sub_sheet, used_height, remaining_height,
                 sub_sheet.x + used_width, used_width)

\* abs(remaining_width - remaining_height) > 1e-6 is their being different
_perform_guillotine_cut(self, sub_sheet, used_width, used_height) ==
    LET remaining_width == sub_sheet.width - used_width - self.kerf_thickness
        remaining_height == sub_sheet.height - used_height - self.kerf_thickness
        cut_horizontal_first ==
            IF remaining_width # remaining_height
            THEN remaining_height > remaining_width
            ELSE self.preferred_cut_orientation = "HORIZONTAL"
    IN  IF cut_horizontal_first
        THEN VerticalCut(
                 HorizontalCut(self, sub_sheet, used_height, remaining_height,
                               sub_sheet.x + sub_sheet.width, sub_sheet.width),
                 sub_sheet, used_width, remaining_width,
                 sub_sheet.y + used_height, used_height)
        ELSE HorizontalCut(
                 VerticalCut(self, sub_sheet, used_width, remaining_width,
                             sub_sheet.y + sub_sheet.height, sub_sheet.height),
                 sub_sheet, used_height, remaining_height,
                 sub_sheet.x + used_width, used_width)

\* list.remove(sub_sheet): the first element equal to it goes
ListRemove(s, e) ==
    LET first == CHOOSE i \in 1..Len(s) : s[i] = e /\ \A j \in 1..(i - 1) : s[j] # e
    IN  SubSeq(s, 1, first - 1) \o SubSeq(s, first + 1, Len(s))

_place_panel(self, panel, sub_sheet, placement) ==
    _perform_guillotine_cut(
        [self EXCEPT
            !.placed_panels =
                Append(@, PlacedPanel(panel, sub_sheet.x, sub_sheet.y,
                                      placement.width, placement.height,
                                      IF placement.rotated THEN 90 ELSE 0,
                                      placement.final_grain_direction,
                                      sub_sheet.sheet_index)),
            !.remaining_sub_sheets = ListRemove(@, sub_sheet)],
        sub_sheet, placement.width, placement.height)

\* mutant: the sub-sheets are tried from the largest
SubSheetAreaLess_largest_first(a, b) == SubSheet_area(a) > SubSheet_area(b)

SubSheetAreaLess(a, b) == SubSheet_area(a) < SubSheet_area(b)

RECURSIVE SubSheetLoop(_, _, _, _)
\* `for sub_sheet in sorted_sub_sheets:` from the i-th on
SubSheetLoop(self, panel, sorted_sub_sheets, i) ==
    IF i > Len(sorted_sub_sheets) THEN [placed |-> FALSE, self |-> self]
    ELSE With(sorted_sub_sheets[i], LAMBDA sub_sheet :
         With(_can_place_panel_in_sub_sheet(self, panel, sub_sheet, FALSE),
              LAMBDA placement :
            IF placement # None
            THEN [placed |-> TRUE,
                  self |-> _place_panel(self, panel, sub_sheet, placement[1])]
            ELSE With(IF panel.rotation_constraint = "ROTATION_90_ALLOWED"
                      THEN _can_place_panel_in_sub_sheet(self, panel, sub_sheet, TRUE)
                      ELSE None, LAMBDA turned :
                    IF turned # None
                    THEN [placed |-> TRUE,
                          self |-> _place_panel(self, panel, sub_sheet, turned[1])]
                    ELSE SubSheetLoop(self, panel, sorted_sub_sheets, i + 1))))

\* returns placed and the algorithm object after the call
_try_place_panel(self, panel) ==
    LET OnCurrent(s) == s.sheet_index = self.current_sheet_index
        current_sheet_sub_sheets == SelectSeq(self.remaining_sub_sheets, OnCurrent)
    IN  SubSheetLoop(self, panel, Sorted(current_sheet_sub_sheets, SubSheetAreaLess), 1)

get_sheet_count(self) == self.current_sheet_index + 1

\* the percentage as the fraction <<numerator, denominator>>
get_overall_efficiency(self) ==
    LET total_sheet_area == get_sheet_count(self) * self.sheet_width * self.sheet_height
        total_panel_area ==
            SumSeq([i \in 1..Len(self.placed_panels) |->
                       self.placed_panels[i].width * self.placed_panels[i].height])
    IN  IF total_sheet_area > 0 THEN <<total_panel_area * 100, total_sheet_area>>
        ELSE <<0, 1>>

------------------------------------------------------------------------------
(* BeamSawNestingAlgorithm.nest as a state machine.  sh holds the algorithm  *)
(* object, panels the argument of nest, remaining the sorted panels, pi the  *)
(* position of the for loop, warned the ids of the "Warning: Panel" lines.   *)

SawSheetDims == {<<6, 4>>}
SawKerfs == {0, 1}
SheetGrains == {"HORIZONTAL", "VERTICAL"}
CutOrientations == {"HORIZONTAL", "VERTICAL"}
SortStrategies ==
    {"LARGEST_FIRST", "SMALLEST_FIRST", "AREA_DESCENDING", "AREA_ASCENDING"}

\* <<width, height, rotation_constraint, grain_direction>> of the panels: one
\* that leaves equal residuals on the sheet, one to turn, a square, two that
\* go upright, one no grain lets through, one longer than the sheet
SawPanelKinds ==
    { <<4, 2, "NO_ROTATION", "MATCH_SHEET">>,
      <<2, 3, "ROTATION_90_ALLOWED", "MATCH_SHEET">>,
      <<2, 2, "ROTATION_90_ALLOWED", "FIXED_HORIZONTAL">>,
      <<1, 3, "ROTATION_90_ALLOWED", "FIXED_VERTICAL">>,
      <<3, 1, "NO_ROTATION", "FIXED_VERTICAL">>,
      <<7, 1, "ROTATION_90_ALLOWED", "MATCH_SHEET">> }

RECURSIVE SawListsUpTo(_)
SawListsUpTo(n) ==
    IF n = 0 THEN {<<>>}
    ELSE LET shorter == SawListsUpTo(n - 1)
         IN  shorter \cup {Append(l, d) : l \in shorter, d \in SawPanelKinds}

\* "Create panels" of run_test: ids from 0
MakeSawPanels(kinds) ==
    [i \in 1..Len(kinds) |->
        SawPanel(kinds[i][1], kinds[i][2], kinds[i][3], kinds[i][4], i - 1)]

\* the inputs of run_test in hundredths, with one panel
RunTestInput ==
    /\ sh \in {<<BeamSawNestingAlgorithm(240, 120, "HORIZONTAL", 5, c, s)>> :
                  c \in CutOrientations, s \in SortStrategies}
    /\ panels \in {MakeSawPanels(<< <<54, 40, r, "MATCH_SHEET">> >>) :
                      r \in {"NO_ROTATION", "ROTATION_90_ALLOWED"}}

SmallSawInput ==
    /\ sh \in {<<BeamSawNestingAlgorithm(d[1], d[2], g, k, c, s)>> :
                  d \in SawSheetDims, g \in SheetGrains, k \in SawKerfs,
                  c \in CutOrientations, s \in SortStrategies}
    /\ panels \in {MakeSawPanels(l) : l \in SawListsUpTo(MaxPanels)}

SawInit ==
    /\ RunTestInput \/ SmallSawInput
    /\ engine = "beamsaw"
    /\ kerf = sh[1].kerf_thickness
    /\ sheet_sizes = <<>>
    /\ pc = "nest"
    /\ sheets = <<>>
    /\ remaining = <<>>
    /\ iteration = 0
    /\ placed_indices = <<>>
    /\ sheet_placed = <<>>
    /\ si = 0
    /\ pi = 0
    /\ new_sheet = None
    /\ best_config = None
    /\ warned = {}
    /\ exit = "running"
    /\ cur = None
    /\ cur0 = None
    /\ last = None

\* sorted_panels = self._sort_panels(panels); self._add_new_sheet()
SawStart ==
    /\ pc = "nest"
    /\ remaining' = _sort_panels(sh[1], panels)
    /\ sh' = <<_add_new_sheet(sh[1])>>
    /\ pi' = 1
    /\ pc' = "for"
    /\ UNCHANGED <<inp, sheets, iteration, placed_indices, sheet_placed, si,
                   new_sheet, best_config, warned, exit, cur, cur0, last>>

\* placed = self._try_place_panel(panel), on the current sheet
SawTryPlace ==
    /\ pc = "for"
    /\ pi \in 1..Len(remaining)
    /\ \E r \in {_try_place_panel(sh[1], remaining[pi])} :
           /\ sh' = <<r.self>>
           /\ IF r.placed
              THEN pi' = pi + 1 /\ UNCHANGED pc
              ELSE pc' = "not_placed" /\ UNCHANGED pi
    /\ UNCHANGED <<inp, sheets, remaining, iteration, placed_indices, sheet_placed,
                   si, new_sheet, best_config, warned, exit, cur, cur0, last>>

\* `if not placed:` a new sheet, a second try, and the warning
SawNewSheet ==
    /\ pc = "not_placed"
    /\ \E r \in {_try_place_panel(_add_new_sheet(sh[1]), remaining[pi])} :
           /\ sh' = <<r.self>>
           /\ warned' = IF r.placed THEN warned ELSE warned \cup {remaining[pi].id}
    /\ pi' = pi + 1
    /\ pc' = "for"
    /\ UNCHANGED <<inp, sheets, remaining, iteration, placed_indices, sheet_placed,
                   si, new_sheet, best_config, exit, cur, cur0, last>>

\* the for loop is exhausted and nest returns
SawReturn ==
    /\ pc = "for"
    /\ pi > Len(remaining)
    /\ pc' = "returned"
    /\ UNCHANGED <<inp, sh, sheets, remaining, iteration, placed_indices,
                   sheet_placed, si, pi, new_sheet, best_config, warned, exit,
                   cur, cur0, last>>

SawNext ==
    \/ SawStart
    \/ SawTryPlace
    \/ SawNewSheet
    \/ SawReturn

SawSpec == SawInit /\ [][SawNext]_vars

------------------------------------------------------------------------------
(* Properties of nest_panels (Spec, FairSpec) *)

\* the sheets of the run: the list built so far and the sheet being filled
AllSheets == sheets \o new_sheet

\* [x, x + w + kerf) x [y, y + h + kerf) of two placed triples intersect
FootprintsOverlap(a, b) ==
    /\ a.x < b.x + b.p.w + kerf
    /\ b.x < a.x + a.p.w + kerf
    /\ a.y < b.y + b.p.h + kerf
    /\ b.y < a.y + a.p.h + kerf

\* C1 (no-overlap): on every sheet of the run, in every reachable state, no
\* two distinct placed triples have overlapping kerf-inclusive footprints.
NoOverlap ==
    \A k \in 1..Len(AllSheets) :
        \A i, j \in 1..Len(AllSheets[k].panels) :
            i # j => ~FootprintsOverlap(AllSheets[k].panels[i], AllSheets[k].panels[j])

\* a returned sheet holds three panels cut with a kerf
NoOverlapWitness ==
    /\ pc = "done"
    /\ kerf = 1
    /\ \E k \in 1..Len(sheets) : Len(sheets[k].panels) >= 3

\* C2 (containment): every placed kerf-inclusive footprint, in the orientation
\* stored on the sheet, lies inside the sheet.
Containment ==
    \A k \in 1..Len(AllSheets) :
        \A i \in 1..Len(AllSheets[k].panels) :
            LET t == AllSheets[k].panels[i]
            IN  /\ 0 <= t.x
                /\ 0 <= t.y
                /\ t.x + t.p.w + kerf <= AllSheets[k].w
                /\ t.y + t.p.h + kerf <= AllSheets[k].h

\* a rotated panel whose footprint ends on the right edge, after another panel
ContainmentWitness ==
    \E k \in 1..Len(AllSheets) :
        \E i \in 2..Len(AllSheets[k].panels) :
            LET t == AllSheets[k].panels[i]
            IN  t.p.rotated /\ t.x + t.p.w + kerf = AllSheets[k].w

\* on how many (sheet, slot) pairs of the returned sheets the id is placed
PlacedCount(id) ==
    Cardinality(UNION {{<<k, i>> : i \in {j \in 1..Len(sheets[k].panels) :
                                             sheets[k].panels[j].p.id = id}} :
                       k \in 1..Len(sheets)})

\* C3 (panel conservation): when nest_panels returns, every input id is either
\* placed exactly once on the returned sheets and not reported, or reported as
\* unplaceable and placed nowhere.
PanelConservation ==
    pc = "done" =>
        \A i \in 1..Len(panels) :
            \/ PlacedCount(panels[i].id) = 1 /\ panels[i].id \notin warned
            \/ PlacedCount(panels[i].id) = 0 /\ panels[i].id \in warned

\* a return with two sheets and a reported panel
PanelConservationWitness ==
    /\ pc = "done"
    /\ Len(sheets) >= 2
    /\ warned # {}

\* the kerf-inclusive footprint of the panel, in one of its two orientations,
\* fits an empty sheet of a configured stock size
FitsSomeStock(p) ==
    \E k \in 1..Len(sheet_sizes) :
        \/ p.orig_w + kerf <= sheet_sizes[k][1] /\ p.orig_h + kerf <= sheet_sizes[k][2]
        \/ p.orig_h + kerf <= sheet_sizes[k][1] /\ p.orig_w + kerf <= sheet_sizes[k][2]

\* C4 (placeable panels are placed): when nest_panels returns, every panel that
\* fits some configured stock in some orientation is on a returned sheet, and
\* every panel reported as unplaceable fits no configured stock.
PlaceablePlaced ==
    pc = "done" =>
        \A i \in 1..Len(panels) :
            /\ FitsSomeStock(panels[i]) => PlacedCount(panels[i].id) >= 1
            /\ panels[i].id \in warned => ~FitsSomeStock(panels[i])

\* a return where one panel fits only the second stock size and only turned,
\* and another fits nothing
PlaceablePlacedWitness ==
    /\ pc = "done"
    /\ Len(sheet_sizes) = 2
    /\ \E i, j \in 1..Len(panels) :
           /\ panels[i].id \in warned
           /\ PlacedCount(panels[j].id) = 1
           /\ panels[j].orig_w + kerf > sheet_sizes[2][1]
           /\ panels[j].orig_w + kerf > sheet_sizes[1][1]

\* C5 (termination): nest_panels returns, and it leaves the main loop only
\* because remaining is empty or because iteration exceeded twice the panel
\* count (or, for no panels, before the loop).
Termination ==
    /\ <>(pc = "done")
    /\ [](pc = "done" => exit \in {"no_panels", "empty", "cap"})

\* a return after as many iterations as there are panels, three or more
TerminationWitness ==
    /\ pc = "done"
    /\ exit = "empty"
    /\ iteration >= 3
    /\ iteration = Len(panels)

\* sum of (w + kerf) * (h + kerf) over the placed triples of a sheet
FootprintArea(s) ==
    SumSeq([i \in 1..Len(s.panels) |->
               (s.panels[i].p.w + kerf) * (s.panels[i].p.h + kerf)])

\* C6 (area conservation): on every sheet of the run, in every reachable
\* state, filled_area is the sum of the placed kerf-inclusive footprints.
AreaConservation ==
    \A k \in 1..Len(AllSheets) : AllSheets[k].filled_area = FootprintArea(AllSheets[k])

\* a sheet being filled holds two panels cut with a kerf, one of them turned
AreaConservationWitness ==
    /\ kerf = 1
    /\ new_sheet # None
    /\ Len(new_sheet[1].panels) >= 2
    /\ \E i \in 1..Len(new_sheet[1].panels) : new_sheet[1].panels[i].p.rotated

EfficiencyAtMostOne ==
    \A k \in 1..Len(AllSheets) :
        efficiency(AllSheets[k])[1] <= efficiency(AllSheets[k])[2]

EfficiencyNotDecreasing ==
    \A k \in 1..Len(AllSheets) :
        k <= Len(AllSheets') =>
            efficiency(AllSheets'[k])[1] * efficiency(AllSheets[k])[2]
              >= efficiency(AllSheets[k])[1] * efficiency(AllSheets'[k])[2]

\* C7 (monotone efficiency): the efficiency of every sheet is at most 1 in
\* every reachable state and no step of the run lowers it.
MonotoneEfficiency ==
    /\ []EfficiencyAtMostOne
    /\ [][EfficiencyNotDecreasing]_vars

\* a sheet that three placements filled completely
MonotoneEfficiencyWitness ==
    \E k \in 1..Len(AllSheets) :
        /\ Len(AllSheets[k].panels) = 3
        /\ AllSheets[k].filled_area = AllSheets[k].w * AllSheets[k].h

------------------------------------------------------------------------------
(* Properties of the Sheet and Panel methods (SheetSpec) *)

\* same width, height and rotation flag (and angle, for a PlanarPanel)
SameOrientation(a, b) ==
    /\ a.w = b.w
    /\ a.h = b.h
    /\ a.rotated = b.rotated
    /\ engine = "planar" => a.rotation_angle = b.rotation_angle

\* C8 (add is atomic on failure): a call of Sheet.add that returns False
\* leaves the sheet (placed list, grid, filled_area, skyline, free rectangles)
\* as it was and the panel with the width, height and rotation it had.
AddAtomicOnFailure ==
    [][(/\ pc = "api"
        /\ iteration' = iteration + 1
        /\ last'.op = "add"
        /\ ~last'.success)
       => (/\ sh' = sh
           /\ cur' # None
           /\ SameOrientation(cur'[1], cur[1]))]_vars

\* a turned panel was refused by a sheet that holds a panel
AddAtomicOnFailureWitness ==
    /\ pc = "api"
    /\ last.op = "add"
    /\ ~last.success
    /\ sh[1].panels # <<>>
    /\ cur[1].rotated
    /\ cur[1].w # cur[1].h

\* what try_add_panel returns for the sheet and the panel of this state
SecondCall ==
    IF engine = "planar" THEN Planar_try_add_panel(sh[1], cur[1])
    ELSE try_add_panel(sh[1], cur[1])

\* after a call of try_add_panel, a second call returns what the first did
\* and leaves the panel's orientation alone
ScoringRepeats ==
    (pc = "api" /\ last.op = "try") =>
        \A r \in {SecondCall} :
            /\ r.success = last.success
            /\ r.x = last.x
            /\ r.y = last.y
            /\ r.rotated = last.rotated
            /\ SameOrientation(r.panel, cur[1])

\* a call of try_add_panel changes neither the sheet nor the orientation
ScoringKeepsState ==
    (pc = "api" /\ last'.op = "try") =>
        /\ sh' = sh
        /\ cur' # None
        /\ SameOrientation(cur'[1], cur[1])

\* C9 (idempotent scoring): two calls of find_best_position / try_add_panel
\* in a row on the same sheet and panel return the same position and
\* orientation, and no call changes the sheet or the panel's orientation.
IdempotentScoring ==
    /\ []ScoringRepeats
    /\ [][ScoringKeepsState]_vars

\* the search chose the turned orientation on a sheet that holds a panel
IdempotentScoringWitness ==
    /\ pc = "api"
    /\ engine # "planar"
    /\ last.op = "try"
    /\ last.success
    /\ last.rotated
    /\ sh[1].panels # <<>>

\* the panel of this state after four more calls of rotate()
FourRotations ==
    IF engine = "planar" THEN RotateTimes(cur[1], 4)
    ELSE Panel_rotate(Panel_rotate(Panel_rotate(Panel_rotate(cur[1]))))

\* width * height the panel was constructed with, as the panel records it
OriginalArea(p) ==
    IF engine = "planar" THEN p.w * p.h ELSE p.orig_w * p.orig_h

\* C10 (rotation round-trip): from every rotation state of a panel, four
\* calls of rotate() restore width, height, the rotated flag and (planar) the
\* angle; original width * height is what the panel was constructed with.
RotationRoundTrip ==
    (pc = "api" /\ cur # None) =>
        \A q \in {FourRotations} :
            /\ SameOrientation(q, cur[1])
            /\ OriginalArea(cur[1]) = cur0[1] * cur0[2]
            /\ OriginalArea(q) = cur0[1] * cur0[2]

\* a shape-bearing panel that rotate() has turned three times
RotationRoundTripWitness ==
    /\ pc = "api"
    /\ engine = "planar"
    /\ last.op = "rotate"
    /\ cur[1].rotation_angle = 270
    /\ cur[1].w # cur[1].h

------------------------------------------------------------------------------
(* Properties of the worked inputs (ScenarioSpec) *)

\* (w, h) the panels were constructed with
PanelSizes == [i \in 1..Len(panels) |-> <<panels[i].orig_w, panels[i].orig_h>>]

\* stock {(100,100,0)}, kerf 0, panels [(60,40),(40,60),(50,50)]
ThreePanelRun ==
    /\ sheet_sizes = << <<100, 100, 0>> >>
    /\ kerf = 0
    /\ PanelSizes = << <<60, 40>>, <<40, 60>>, <<50, 50>> >>

\* C11 (scenario): with stock {(100,100,0)}, kerf 0 and panels
\* [(60,40),(40,60),(50,50)], nest_panels returns exactly one sheet, the sheet
\* holds each of the three panels once, no two of them overlap, and its
\* efficiency is 7300/10000.
OneSheetScenario ==
    (pc = "done" /\ ThreePanelRun) =>
        /\ Len(sheets) = 1
        /\ Len(sheets[1].panels) = 3
        /\ \A i \in 1..3 : PlacedCount(panels[i].id) = 1
        /\ \A i, j \in 1..3 :
               i # j => ~FootprintsOverlap(sheets[1].panels[i], sheets[1].panels[j])
        /\ efficiency(sheets[1])[1] * 10000 = 7300 * efficiency(sheets[1])[2]

\* the return of that run
OneSheetScenarioWitness ==
    /\ pc = "done"
    /\ ThreePanelRun
    /\ sheets # <<>>

\* stock {(10,10,0)}, kerf 0, panel (11,5)
TooLongRun ==
    /\ sheet_sizes = << <<10, 10, 0>> >>
    /\ kerf = 0
    /\ PanelSizes = << <<11, 5>> >>

\* the panel is longer or wider than every stock size, whichever way it is turned
ExceedsEveryStock(p) ==
    \A k \in 1..Len(sheet_sizes) :
        /\ p.orig_w > sheet_sizes[k][1] \/ p.orig_h > sheet_sizes[k][2]
        /\ p.orig_h > sheet_sizes[k][1] \/ p.orig_w > sheet_sizes[k][2]

\* C12 (unplaceable panel): when nest_panels returns, every panel that
\* exceeds every configured stock in both orientations is reported and is on
\* no sheet; with stock {(10,10,0)}, kerf 0 and the panel (11,5) the result is
\* zero sheets and one reported panel; and no returned sheet holds zero panels.
NoSheetForOversized ==
    pc = "done" =>
        /\ \A i \in 1..Len(panels) :
               ExceedsEveryStock(panels[i]) =>
                   panels[i].id \in warned /\ PlacedCount(panels[i].id) = 0
        /\ TooLongRun => sheets = <<>> /\ Cardinality(warned) = 1
        /\ \A k \in 1..Len(sheets) : sheets[k].panels # <<>>

\* the return of the (11,5) run, with the panel reported
NoSheetForOversizedWitness ==
    /\ pc = "done"
    /\ TooLongRun
    /\ warned = {0}

------------------------------------------------------------------------------
(* Properties of the beam saw algorithm (SawSpec) *)

\* the rectangles of stock sheet i: its live sub-sheets, then its placed panels
SawRegions(self, i) ==
    LET OnSheet(r) == r.sheet_index = i
        Rect(r) == [x |-> r.x, y |-> r.y, width |-> r.width, height |-> r.height]
        subs == SelectSeq(self.remaining_sub_sheets, OnSheet)
        placed == SelectSeq(self.placed_panels, OnSheet)
    IN  [k \in 1..Len(subs) |-> Rect(subs[k])] \o [k \in 1..Len(placed) |-> Rect(placed[k])]

RegionsOverlap(a, b) ==
    /\ a.x < b.x + b.width
    /\ b.x < a.x + a.width
    /\ a.y < b.y + b.height
    /\ b.y < a.y + a.height

\* the unit squares of a rectangle, by their lower left corners
RegionCells(r) ==
    {<<cx, cy>> : cx \in r.x..(r.x + r.width - 1), cy \in r.y..(r.y + r.height - 1)}

\* on every stock sheet the regions are disjoint, inside the sheet, and no
\* larger than the sheet together; without kerf they add up to the sheet
GuillotineRegions ==
    pc # "nest" =>
        \A i \in 0..sh[1].current_sheet_index :
            LET regions == SawRegions(sh[1], i)
            IN  /\ regions # <<>>
                /\ \A a, b \in 1..Len(regions) :
                       a # b => ~RegionsOverlap(regions[a], regions[b])
                /\ \A a \in 1..Len(regions) :
                       /\ 0 <= regions[a].x
                       /\ 0 <= regions[a].y
                       /\ regions[a].width > 0
                       /\ regions[a].height > 0
                       /\ regions[a].x + regions[a].width <= sh[1].sheet_width
                       /\ regions[a].y + regions[a].height <= sh[1].sheet_height
                /\ SumSeq([a \in 1..Len(regions) |->
                               regions[a].width * regions[a].height])
                       <= sh[1].sheet_width * sh[1].sheet_height
                /\ sh[1].kerf_thickness = 0 =>
                       SumSeq([a \in 1..Len(regions) |->
                                  regions[a].width * regions[a].height])
                           = sh[1].sheet_width * sh[1].sheet_height

\* a step that places a panel loses, of the sub-sheet it consumes, only unit
\* squares in the kerf strip right of the panel or in the kerf strip above it
GuillotineCutLoss ==
    (pc # "nest" /\ Len(sh'[1].placed_panels) = Len(sh[1].placed_panels) + 1) =>
        With(sh'[1].placed_panels[Len(sh'[1].placed_panels)], LAMBDA p :
        With(SawRegions(sh'[1], p.sheet_index), LAMBDA after :
        With(sh[1].kerf_thickness, LAMBDA k :
            LET fresh == SubSheet(0, 0, sh[1].sheet_width, sh[1].sheet_height, 0, -1,
                                  sh'[1].current_sheet_index)
                live == Range(sh[1].remaining_sub_sheets) \cup {fresh}
                InStrip(c) ==
                    \/ p.x + p.width <= c[1] /\ c[1] < p.x + p.width + k
                    \/ p.y + p.height <= c[2] /\ c[2] < p.y + p.height + k
                Covered(c) ==
                    \E a \in 1..Len(after) :
                        /\ after[a].x <= c[1] /\ c[1] < after[a].x + after[a].width
                        /\ after[a].y <= c[2] /\ c[2] < after[a].y + after[a].height
            IN  \E consumed \in live :
                    /\ consumed.x = p.x
                    /\ consumed.y = p.y
                    /\ consumed.sheet_index = p.sheet_index
                    /\ consumed \notin Range(sh'[1].remaining_sub_sheets)
                    /\ \A c \in RegionCells(consumed) : Covered(c) \/ InStrip(c))))

\* C13 (guillotine tiling): in every state after nest has opened the first
\* sheet, the live SubSheets and placed panels of every stock sheet are
\* pairwise non-overlapping and inside the sheet, with kerf 0 their areas add
\* up to the sheet area, and every placement replaces the SubSheet it consumes
\* by the panel and SubSheets that cover it except for kerf strips.
GuillotineTiling == []GuillotineRegions /\ [][GuillotineCutLoss]_vars

\* nest returned with a kerf, three panels placed on the first sheet and a
\* SubSheet left by a cut inside a SubSheet
GuillotineTilingWitness ==
    /\ pc = "returned"
    /\ sh[1].kerf_thickness > 0
    /\ Cardinality({k \in 1..Len(sh[1].placed_panels) :
                       sh[1].placed_panels[k].sheet_index = 0}) = 3
    /\ \E k \in 1..Len(sh[1].remaining_sub_sheets) :
           sh[1].remaining_sub_sheets[k].level >= 2

\* the grain a panel's constraint asks for on this sheet
RequiredGrain(self, panel) ==
    CASE panel.grain_direction = "MATCH_SHEET" ->
            IF self.sheet_grain = "HORIZONTAL" THEN "Horizontal" ELSE "Vertical"
      [] panel.grain_direction = "FIXED_HORIZONTAL" -> "Horizontal"
      [] panel.grain_direction = "FIXED_VERTICAL" -> "Vertical"

\* C14 (grain gating): every placed panel has the final grain its constraint
\* asks for (the sheet grain for MATCH_SHEET), its placed size is its own size,
\* swapped when the rotation is 90, and a panel with final grain Horizontal has
\* placed width >= placed height, one with final grain Vertical has placed
\* width < placed height.
GrainGating ==
    \A k \in 1..Len(sh[1].placed_panels) :
        LET p == sh[1].placed_panels[k]
        IN  /\ p.final_grain_direction = RequiredGrain(sh[1], p.panel)
            /\ p.rotation_degrees \in {0, 90}
            /\ p.rotation_degrees = 0 =>
                   p.width = p.panel.width /\ p.height = p.panel.height
            /\ p.rotation_degrees = 90 =>
                   /\ p.width = p.panel.height /\ p.height = p.panel.width
                   /\ p.panel.rotation_constraint = "ROTATION_90_ALLOWED"
            /\ p.final_grain_direction = "Horizontal" => p.width >= p.height
            /\ p.final_grain_direction = "Vertical" => p.width < p.height

\* nest returned having turned one panel to meet the grain and having refused
\* a panel that is smaller than the sheet
GrainGatingWitness ==
    /\ pc = "returned"
    /\ \E k \in 1..Len(sh[1].placed_panels) :
           sh[1].placed_panels[k].rotation_degrees = 90
    /\ \E i \in 1..Len(panels) :
           /\ panels[i].id \in warned
           /\ panels[i].width <= sh[1].sheet_width
           /\ panels[i].height <= sh[1].sheet_height

\* 240 x 120 sheet, horizontal grain, kerf 5, the MATCH_SHEET panel (54, 40)
RunTestRun ==
    /\ sh[1].sheet_width = 240
    /\ sh[1].sheet_height = 120
    /\ sh[1].sheet_grain = "HORIZONTAL"
    /\ sh[1].kerf_thickness = 5
    /\ Len(panels) = 1
    /\ panels[1].width = 54
    /\ panels[1].height = 40
    /\ panels[1].grain_direction = "MATCH_SHEET"

\* C15 (guillotine scenario): with a 240 x 120 sheet, horizontal grain, kerf 5
\* and the single MATCH_SHEET panel (54, 40), nest places the panel at (0, 0)
\* with rotation 0 and leaves exactly two SubSheets: one beside the panel, of
\* width 240 - 54 - 5 = 181, and one above it, of height 120 - 40 - 5 = 75.
GuillotineScenario ==
    (pc = "returned" /\ RunTestRun) =>
        /\ Len(sh[1].placed_panels) = 1
        /\ sh[1].placed_panels[1].x = 0
        /\ sh[1].placed_panels[1].y = 0
        /\ sh[1].placed_panels[1].width = 54
        /\ sh[1].placed_panels[1].height = 40
        /\ sh[1].placed_panels[1].rotation_degrees = 0
        /\ Len(sh[1].remaining_sub_sheets) = 2
        /\ \E beside, above \in Range(sh[1].remaining_sub_sheets) :
               /\ beside.x = 54 + 5
               /\ beside.y = 0
               /\ beside.width = 181
               /\ above.x = 0
               /\ above.y = 40 + 5
               /\ above.height = 75

\* the return of that run
GuillotineScenarioWitness ==
    /\ pc = "returned"
    /\ RunTestRun
    /\ sh[1].placed_panels # <<>>

------------------------------------------------------------------------------
(* Properties of Sheet.fits (SheetSpec) *)

\* the footprint of p at (x, y) passes the bounds test of fits
InBounds(s, p, x, y) ==
    /\ x >= 0
    /\ y >= 0
    /\ x + get_placed_width(p) <= s.w
    /\ y + get_placed_height(p) <= s.h

\* no placed triple of the sheet, whichever cell holds it, overlaps the footprint
ScanAllPanels(s, p, x, y) ==
    \A i \in 1..Len(s.panels) :
        ~BoxesOverlap(x, y, get_placed_width(p), get_placed_height(p), s.panels[i])

\* the indices fits reads from the cells the footprint spans
IndicesSeen(s, p, x, y) ==
    UNION {Range(s.grid[c]) :
              c \in _get_grid_cells(s, x, y, get_placed_width(p), get_placed_height(p))}

\* C16 (grid collision equals exhaustive collision): on every reachable v2 or
\* hybrid sheet, for the panel at hand in the orientation it has and every
\* in-bounds position, fits is TRUE exactly when a scan over all placed
\* panels finds no kerf-inclusive footprint overlapping the candidate.
GridEqualsScan ==
    (engine \in {"v2", "hybrid"} /\ cur # None) =>
        \A x \in 0..sh[1].w, y \in 0..sh[1].h :
            InBounds(sh[1], cur[1], x, y) =>
                (fits(sh[1], cur[1], x, y) <=> ScanAllPanels(sh[1], cur[1], x, y))

\* a sheet with two panels and a turned candidate: at one position the cells
\* hold neither panel, at another they hold a panel the candidate clears, at a
\* third one it overlaps
GridEqualsScanWitness ==
    /\ engine \in {"v2", "hybrid"}
    /\ cur # None
    /\ cur[1].rotated
    /\ Len(sh[1].panels) = 2
    /\ \E x \in 0..sh[1].w, y \in 0..sh[1].h :
           /\ InBounds(sh[1], cur[1], x, y)
           /\ IndicesSeen(sh[1], cur[1], x, y) = {}
    /\ \E x \in 0..sh[1].w, y \in 0..sh[1].h :
           /\ InBounds(sh[1], cur[1], x, y)
           /\ IndicesSeen(sh[1], cur[1], x, y) # {}
           /\ fits(sh[1], cur[1], x, y)
    /\ \E x \in 0..sh[1].w, y \in 0..sh[1].h :
           /\ InBounds(sh[1], cur[1], x, y)
           /\ ~fits(sh[1], cur[1], x, y)

------------------------------------------------------------------------------
(* Properties of the v2 candidate positions (SheetSpec) *)

\* the free rectangle holds the kerf-inclusive footprint of p as it is or turned
HoldsInSomeOrientation(r, p) ==
    \/ get_placed_width(p) <= r.w /\ get_placed_height(p) <= r.h
    \/ get_placed_height(p) <= r.w /\ get_placed_width(p) <= r.h

\* the free rectangles of the sheet that hold p in one of its orientations
HoldingRects(s, p) ==
    {i \in 1..Len(s.free_rects) : HoldsInSomeOrientation(s.free_rects[i], p)}

\* C17 (candidate completeness): on a v2 sheet, when the free rectangles that
\* hold the panel in at least one orientation are no more than the candidate
\* cap, get_candidate_positions_maxrects returns the corner of each of them,
\* and find_best_position reports no fit only when there is none.
CandidateCompleteness ==
    (engine = "v2" /\ cur # None) =>
        /\ Cardinality(HoldingRects(sh[1], cur[1])) <= MAX_CANDIDATE_POSITIONS =>
               \A i \in HoldingRects(sh[1], cur[1]) :
                   <<sh[1].free_rects[i].x, sh[1].free_rects[i].y>>
                       \in Range(get_candidate_positions_maxrects(sh[1], cur[1]))
        /\ ~try_add_panel(sh[1], cur[1]).success => HoldingRects(sh[1], cur[1]) = {}

------------------------------------------------------------------------------
(* Properties of the configuration scoring (ScenarioSpec, Spec) *)

\* <<test_area, test_count>> of the simulation of the k-th configuration on
\* the panels that remain
TrialOf(k) ==
    TrialLoop(Sheet(Configurations[k][1], Configurations[k][2],
                    Configurations[k][3], Avg),
              Take(remaining, test_limit(remaining)), 1, 0, 0)

\* (fill_ratio * weight_fill + panel_ratio * weight_count) * placed_count
\* - sheet_area * weight_area of the k-th configuration
ScoreOf(k) == ConfigScore(Configurations[k], remaining, TrialOf(k))

\* the scoring step has just opened new_sheet: remaining is still the list
\* that was scored
ScoringStepOpened == pc = "fill" /\ pi = 1 /\ new_sheet # None

\* (width, height, type_id) of the sheet that was opened
Opened == <<new_sheet[1].w, new_sheet[1].h, new_sheet[1].type_id>>

\* the accepting configurations: the simulation placed at least one panel
Accepting == {k \in 1..Len(Configurations) : TrialOf(k)[2] > 0}

\* the k-th configuration has the highest score of those of K, and a higher
\* score than those of K evaluated before it
HighestEarliest(k, K) ==
    \A j \in K : /\ ~FracGreater(ScoreOf(j), ScoreOf(k))
                 /\ j < k => FracGreater(ScoreOf(k), ScoreOf(j))

\* C18 as stated (new-sheet selection): the sheet the scoring step opens is
\* the configuration with the highest score among all the configurations
\* evaluated in the iteration, the earliest evaluated winning ties.
HighestOfAllOpened ==
    ScoringStepOpened =>
        \E k \in 1..Len(Configurations) :
            /\ Configurations[k] = Opened
            /\ HighestEarliest(k, 1..Len(Configurations))

\* C18 amended (new-sheet selection): the sheet the scoring step opens is the
\* configuration with the highest score among the evaluated configurations
\* whose simulation accepted at least one panel, the earliest evaluated of
\* them winning ties.
HighestAcceptingOpened ==
    ScoringStepOpened =>
        \E k \in Accepting :
            /\ Configurations[k] = Opened
            /\ HighestEarliest(k, Accepting)

\* every configuration of two stock sizes accepted a panel and the third was
\* opened: it beats the first and the second and ties with the fourth
HighestAcceptingOpenedWitness ==
    /\ ScoringStepOpened
    /\ Len(Configurations) = 4
    /\ Accepting = {1, 2, 3, 4}
    /\ Configurations[3] = Opened
    /\ FracGreater(ScoreOf(3), ScoreOf(1))
    /\ FracGreater(ScoreOf(3), ScoreOf(2))
    /\ ~FracGreater(ScoreOf(3), ScoreOf(4))
    /\ ~FracGreater(ScoreOf(4), ScoreOf(3))

\* C19 (last resort only when nothing was accepted): the last resort branch is
\* entered only when no configuration, in either orientation, accepted a
\* panel of the simulated prefix; when one did, the scoring step opens a
\* configuration instead.
LastResortOnlyWhenNoneAccepted ==
    pc = "last" => Accepting = {}

------------------------------------------------------------------------------
(* Properties of Panel.copy in nest_panels (Spec) *)

\* the panel objects the driver holds: on the sheets, on the sheet being
\* filled and in remaining
SheetObjects ==
    UNION {{sheets[k].panels[j].p : j \in 1..Len(sheets[k].panels)} :
           k \in 1..Len(sheets)}

NewSheetObjects ==
    IF new_sheet = None THEN {}
    ELSE {new_sheet[1].panels[j].p : j \in 1..Len(new_sheet[1].panels)}

\* the panel is as the caller built it
Unmutated(p) == p.w = p.orig_w /\ p.h = p.orig_h /\ ~p.rotated

\* the loop body is about to run once more
IterationStart == pc = "while" /\ remaining # <<>>

\* C20 (copy before trial): no instance the caller built is ever changed; at
\* the start of every iteration of the driver loop remaining holds only such
\* instances, with their original width and height and not rotated, and every
\* object on a sheet is a copy that is not in remaining.
CopyBeforeTrial ==
    /\ \A p \in Range(panels) \cup Range(remaining) \cup SheetObjects
                \cup NewSheetObjects :
           ~p.is_copy => Unmutated(p)
    /\ IterationStart =>
           /\ \A i \in 1..Len(remaining) :
                  /\ Unmutated(remaining[i])
                  /\ remaining[i] \in Range(panels)
           /\ \A q \in SheetObjects :
                  /\ q.is_copy
                  /\ q \notin Range(remaining)
                  /\ \A i \in 1..Len(remaining) : remaining[i].id # q.id

\* an iteration starts with a panel that remains, after an iteration whose
\* existing-sheet pass placed a copy on the last sheet as its second panel
CopyBeforeTrialWitness ==
    /\ IterationStart
    /\ iteration >= 2
    /\ sheet_placed # <<>>
    /\ Len(sheets[Len(sheets)].panels) >= 2

------------------------------------------------------------------------------
(* Properties of the progress of nest_panels (Spec) *)

\* a step of the loop body never adds to remaining, and the step that ends an
\* iteration that goes on (the new sheet is closed, or the last resort is
\* taken) takes at least one panel out of it
IterationRemoves ==
    /\ pc # "start" => Len(remaining') <= Len(remaining)
    /\ (pc # "safety" /\ pc' = "safety") => Len(remaining') < Len(remaining)

\* C21 (driver progress): every iteration of the main loop that does not exit
\* removes at least one panel from remaining; the "could not place" abort and
\* the iteration cap are never taken, and the iteration counter never exceeds
\* the number of input panels.
DriverProgress ==
    /\ [][IterationRemoves]_vars
    /\ [](exit \notin {"abort", "cap"})
    /\ [](iteration <= Len(panels))
    /\ [](pc = "while" => Len(remaining) + iteration <= Len(panels))

\* nest_panels returned after as many iterations as it was given panels, one
\* sheet for each, the last of them opened by the scoring step
DriverProgressWitness ==
    /\ pc = "done"
    /\ Len(panels) = MaxPanels
    /\ iteration = Len(panels)
    /\ best_config # None
    /\ Len(sheets) = Len(panels)

------------------------------------------------------------------------------
(* Properties of the free rectangles and the skyline (SheetSpec) *)

\* the sheet keeps free rectangles: the rectangular engines
HasFreeRects == engine \in {"v2", "hybrid"}

\* the unit squares of the sheet, each named by its lower left corner; all
\* coordinates are integers, so a rectangle of the sheet is a set of them
UnitSquares(s) == (0..s.w - 1) \X (0..s.h - 1)

\* the unit square lies in the kerf-inclusive footprint of a placed panel
InFootprint(s, c) ==
    \E i \in 1..Len(s.panels) :
        contains_point(FreeRectangle(s.panels[i].x, s.panels[i].y,
                                     get_placed_width(s.panels[i].p),
                                     get_placed_height(s.panels[i].p)),
                       c[1], c[2])

\* the unit square lies in a free rectangle
InFreeRect(s, c) ==
    \E i \in 1..Len(s.free_rects) : contains_point(s.free_rects[i], c[1], c[2])

\* C22 (free-space index exactness): after any sequence of placements no free
\* rectangle overlaps a placed kerf-inclusive footprint, every free rectangle
\* lies on the sheet, and every point of the sheet outside the footprints lies
\* in a free rectangle.
FreeSpaceExact ==
    HasFreeRects =>
        /\ \A i \in 1..Len(sh[1].free_rects) :
               contains(FreeRectangle(0, 0, sh[1].w, sh[1].h), sh[1].free_rects[i])
        /\ \A c \in UnitSquares(sh[1]) :
               InFreeRect(sh[1], c) <=> ~InFootprint(sh[1], c)

\* two panels were placed and free rectangles that overlap each other remain
FreeSpaceExactWitness ==
    /\ HasFreeRects
    /\ Len(sh[1].panels) >= 2
    /\ \E i, j \in 1..Len(sh[1].free_rects) :
           i # j /\ intersects(sh[1].free_rects[i], sh[1].free_rects[j])

RECURSIVE Replaced(_, _)
\* the sheet as it was when it held its first n panels: they are placed
\* again, in order, on a sheet of the same construction
Replaced(s, n) ==
    IF n = 0 THEN Sheet(s.w, s.h, s.type_id, ApiAvg)
    ELSE place(Replaced(s, n - 1), s.panels[n].p, s.panels[n].x, s.panels[n].y)

\* what the last Sheet.place handed to _prune_free_rects
LastNewFreeRects ==
    LET n == Len(sh[1].panels)
        before == Replaced(sh[1], n - 1)
        last_placed == sh[1].panels[n]
    IN  Concat([i \in 1..Len(before.free_rects) |->
                   SplitRect(before.free_rects[i], last_placed.x, last_placed.y,
                             get_placed_width(last_placed.p),
                             get_placed_height(last_placed.p))])

\* C29 (free-rectangle non-redundancy): after every Sheet.place no free
\* rectangle of the index is fully contained in another free rectangle of
\* the index, and every free rectangle has strictly positive width and
\* height.
FreeRectsNotRedundant ==
    HasFreeRects =>
        /\ \A i, j \in 1..Len(sh[1].free_rects) :
               i # j => ~contains(sh[1].free_rects[j], sh[1].free_rects[i])
        /\ \A i \in 1..Len(sh[1].free_rects) :
               sh[1].free_rects[i].w > 0 /\ sh[1].free_rects[i].h > 0

\* the last of at least two placements split the free rectangles into more
\* pieces than the index now holds: a contained piece was pruned, and
\* several free rectangles remain
FreeRectsNotRedundantWitness ==
    /\ HasFreeRects
    /\ Len(sh[1].panels) >= 2
    /\ Replaced(sh[1], Len(sh[1].panels)) = sh[1]
    /\ Len(sh[1].free_rects) >= 2
    /\ Len(LastNewFreeRects) > Len(sh[1].free_rects)

\* the skyline is in the order of (y, x)
SkylineSorted(s) ==
    \A i \in 1..(Len(s.skyline) - 1) :
        ~SkylineLess(s.skyline[i + 1], s.skyline[i])

\* two segments of the same height, the second beginning where the first ends
AdjacentSameHeight(a, b) == a[2] = b[2] /\ a[1] + a[3] = b[1]

\* C30 (skyline merging): after every Sheet.place the skyline is sorted by
\* (y ascending, x ascending), and two segments of the same height that are
\* adjacent in x are merged into a single segment rather than kept as two.
SkylineMerged ==
    HasFreeRects =>
        /\ SkylineSorted(sh[1])
        /\ \A i, j \in 1..Len(sh[1].skyline) :
               ~AdjacentSameHeight(sh[1].skyline[i], sh[1].skyline[j])

------------------------------------------------------------------------------
(* Properties of the new-sheet simulation (Spec) *)

RECURSIVE PlacingTrial(_, _, _, _, _)
\* the simulation of the claim: as TrialLoop, but every accepted trial panel
\* is placed on the test sheet before the next one is tried.
\* Returns <<test_area, test_count>>.
PlacingTrial(test_sheet, prefix, i, test_area, test_count) ==
    IF i > Len(prefix) THEN <<test_area, test_count>>
    ELSE With(add(test_sheet, Panel_copy(prefix[i])), LAMBDA r :
            IF r.success
            THEN With(<<test_area + r.panel.area, test_count + 1>>, LAMBDA taken :
                    IF 100 * taken[1] > 90 * test_sheet.w * test_sheet.h
                    THEN taken
                    ELSE PlacingTrial(r.sheet, prefix, i + 1, taken[1], taken[2]))
            ELSE PlacingTrial(test_sheet, prefix, i + 1, test_area, test_count))

\* C23 (the simulation places its trial panels): when a configuration is
\* scored, the panels counted for it are those a test sheet that keeps every
\* accepted trial panel accepts, so their area is no more than the area of
\* the sheet.
TrialPanelsCoexist ==
    pc = "select" =>
        \A k \in 1..Len(Configurations) :
            /\ TrialOf(k)[1] <= Configurations[k][1] * Configurations[k][2]
            /\ TrialOf(k) =
                   PlacingTrial(Sheet(Configurations[k][1], Configurations[k][2],
                                      Configurations[k][3], Avg),
                                Take(remaining, test_limit(remaining)), 1, 0, 0)

------------------------------------------------------------------------------
(* Properties of Sheet.add and try_add_panel (SheetSpec) *)

\* the step is a call of sheet.add(panel) that returned True
AddSucceeds == cur # None /\ last'.op = "add" /\ last'.success

\* what the add call stored: the last entry of sheet.panels
Stored == sh'[1].panels[Len(sh'[1].panels)]

\* the panel as try_add_panel validated it with fits: turned as often as the
\* returned rotation says, from the state it was handed over in
Validated ==
    IF engine = "planar"
    THEN RotateTimes(cur[1], Planar_try_add_panel(sh[1], cur[1]).rotated)
    ELSE IF try_add_panel(sh[1], cur[1]).rotated THEN Panel_rotate(cur[1])
         ELSE cur[1]

\* fits of the engine that runs
EngineFits(s, p, x, y) ==
    IF engine = "planar" THEN Planar_fits(s, p, x, y) ELSE fits(s, p, x, y)

\* a successful add stores the panel in the validated orientation, where it
\* fits on the sheet as it was before the call
StoresValidated ==
    AddSucceeds =>
        /\ Stored.p = Validated
        /\ EngineFits(sh[1], Stored.p, Stored.x, Stored.y)

\* C24 (add places what was validated): for a panel in any rotation state,
\* when Sheet.add succeeds the stored panel is in exactly the orientation for
\* which try_add_panel validated the returned position with fits.
AddPlacesValidated == [][StoresValidated]_vars

------------------------------------------------------------------------------
(* Properties of the beam saw sheet count and best fit (SawSpec) *)

\* the stock sheets that hold at least one placed panel
SheetsWithPanels(self) ==
    {self.placed_panels[i].sheet_index : i \in 1..Len(self.placed_panels)}

\* the number of sheets to report: those that hold a panel, 1 when none does
SheetsUsed(self) == Max(1, Cardinality(SheetsWithPanels(self)))

\* the placed area as a percentage of the area of the sheets to report, as
\* the fraction <<numerator, denominator>>
EfficiencyOfUsed(self) ==
    <<100 * SumSeq([i \in 1..Len(self.placed_panels) |->
                      self.placed_panels[i].width * self.placed_panels[i].height]),
      SheetsUsed(self) * self.sheet_width * self.sheet_height>>

\* C25 (sheet count): when nest returns, get_sheet_count() is the number of
\* stock sheets that hold at least one placed panel (1 when nothing was
\* placed), and get_overall_efficiency() is the placed area over the area of
\* those sheets: a panel rejected on a freshly opened sheet changes neither.
SheetCountExact ==
    pc = "returned" =>
        /\ get_sheet_count(sh[1]) = SheetsUsed(sh[1])
        /\ ~FracGreater(EfficiencyOfUsed(sh[1]), get_overall_efficiency(sh[1]))
        /\ ~FracGreater(get_overall_efficiency(sh[1]), EfficiencyOfUsed(sh[1]))

------------------------------------------------------------------------------
(* Properties of the hybrid try_add_panel (SheetSpec) *)

\* sheet.try_add_panel(panel) of hybrid has just returned True; sh and cur
\* are as they were at the call
HybridTried == engine = "hybrid" /\ cur # None /\ last.op = "try" /\ last.success

\* the candidate positions the call ran over
HybridCandidates == Range(SamplePositions(get_candidate_positions(sh[1])))

\* the panel of the call, turned or not
Oriented(rot) == IF rot THEN Panel_rotate(cur[1]) ELSE cur[1]

\* the panel fits at candidate q in the orientation rot
FeasibleAt(q, rot) == fits(sh[1], Oriented(rot), q[1], q[2])

\* <<y, x>> of a is not after <<y, x>> of b
BottomLeftLeq(a, b) == a[2] < b[2] \/ (a[2] = b[2] /\ a[1] <= b[1])

TopEdge(q, rot) == q[2] + get_placed_height(Oriented(rot))

\* the choice (a, ra) is made before (b, rb): lower top edge, then lower y,
\* then lower x, then unrotated
ChosenBefore(a, ra, b, rb) ==
    \/ TopEdge(a, ra) < TopEdge(b, rb)
    \/ /\ TopEdge(a, ra) = TopEdge(b, rb)
       /\ \/ a # b /\ BottomLeftLeq(a, b)
          \/ a = b /\ (ra = rb \/ ~ra)

------------------------------------------------------------------------------
(* Properties of the best fit and the cut order of the beam saw (SawSpec) *)

\* the algorithm object _try_place_panel is called on in the step
TriedOn == IF pc = "not_placed" THEN _add_new_sheet(sh[1]) ELSE sh[1]

\* the step is a call of _try_place_panel that succeeds
SawPlaces ==
    /\ pc \in {"for", "not_placed"}
    /\ pi \in 1..Len(remaining)
    /\ Len(sh'[1].placed_panels) = Len(sh[1].placed_panels) + 1

\* sub_sheet is on the current sheet and takes the panel one way or the other
Accepts(self, panel, sub_sheet) ==
    /\ sub_sheet.sheet_index = self.current_sheet_index
    /\ \/ _can_place_panel_in_sub_sheet(self, panel, sub_sheet, FALSE) # None
       \/ /\ panel.rotation_constraint = "ROTATION_90_ALLOWED"
          /\ _can_place_panel_in_sub_sheet(self, panel, sub_sheet, TRUE) # None

SmallestAccepting ==
    SawPlaces =>
        LET self == TriedOn
            panel == remaining[pi]
            live == {self.remaining_sub_sheets[i] :
                        i \in 1..Len(self.remaining_sub_sheets)}
            placed == sh'[1].placed_panels[Len(sh'[1].placed_panels)]
        IN  \E sub_sheet \in live :
               /\ Accepts(self, panel, sub_sheet)
               /\ placed.x = sub_sheet.x /\ placed.y = sub_sheet.y
               /\ placed.sheet_index = self.current_sheet_index
               /\ placed.panel = panel
               /\ (placed.rotation_degrees = 90) =
                      (_can_place_panel_in_sub_sheet(self, panel, sub_sheet, FALSE)
                           = None)
               /\ \A other \in live :
                      Accepts(self, panel, other) =>
                          SubSheet_area(other) >= SubSheet_area(sub_sheet)

\* C27: a successful _try_place_panel puts the panel at the origin of an
\* accepting sub-sheet of the current sheet (fit and grain, turned only when
\* it does not go unturned and may be turned) than which no accepting
\* sub-sheet of the current sheet has a smaller area
BestFitPlacement == [][SmallestAccepting]_vars

\* a panel has just been placed on the current sheet while a sub-sheet that
\* was live before the placement, lower or further left, accepts it too
BestFitPlacementWitness ==
    /\ pc = "for" /\ pi >= 2
    /\ sh[1].placed_panels # <<>>
    /\ LET placed == sh[1].placed_panels[Len(sh[1].placed_panels)]
       IN  /\ placed.panel = remaining[pi - 1]
           /\ placed.rotation_degrees = 90
           /\ \E i \in 1..Len(sh[1].remaining_sub_sheets) :
                 LET other == sh[1].remaining_sub_sheets[i]
                 IN  /\ other.x < placed.x \/ other.y < placed.y
                     /\ Accepts(sh[1], placed.panel, other)

\* what the first cut of the placing step is held to: by the residual
\* dimensions when they differ, by the preferred orientation when they are
\* equal, and no cut when neither residual dimension is positive
FirstCutByResidual ==
    SawPlaces =>
        LET self == TriedOn
            placed == sh'[1].placed_panels[Len(sh'[1].placed_panels)]
            sub_sheet ==
                CHOOSE s \in {self.remaining_sub_sheets[i] :
                                 i \in 1..Len(self.remaining_sub_sheets)} :
                    /\ s.sheet_index = self.current_sheet_index
                    /\ s.x = placed.x /\ s.y = placed.y
            remaining_width == sub_sheet.width - placed.width - self.kerf_thickness
            remaining_height == sub_sheet.height - placed.height - self.kerf_thickness
            made == Len(sh'[1].cut_lines) - Len(self.cut_lines)
            first == sh'[1].cut_lines[Len(self.cut_lines) + 1]
            Left(orientation) ==
                {sh'[1].remaining_sub_sheets[i] :
                    i \in {j \in 1..Len(sh'[1].remaining_sub_sheets) :
                              /\ sh'[1].remaining_sub_sheets[j].parent_cut_id = first.id
                              /\ first.orientation = orientation}}
            HorizontalFirst ==
                /\ made >= 1
                /\ first.orientation = "HORIZONTAL"
                /\ first.position = sub_sheet.y + placed.height
                /\ first.start = sub_sheet.x
                /\ first.end = sub_sheet.x + sub_sheet.width
                /\ \E top \in Left("HORIZONTAL") :
                       /\ top.x = sub_sheet.x
                       /\ top.width = sub_sheet.width
                       /\ top.height = remaining_height
            VerticalFirst ==
                /\ made >= 1
                /\ first.orientation = "VERTICAL"
                /\ first.position = sub_sheet.x + placed.width
                /\ first.start = sub_sheet.y
                /\ first.end = sub_sheet.y + sub_sheet.height
                /\ \E right \in Left("VERTICAL") :
                       /\ right.y = sub_sheet.y
                       /\ right.height = sub_sheet.height
                       /\ right.width = remaining_width
        IN  /\ remaining_height > remaining_width /\ remaining_height > 0
                => HorizontalFirst
            /\ remaining_width > remaining_height /\ remaining_width > 0
                => VerticalFirst
            /\ remaining_width = remaining_height /\ remaining_width > 0
                => IF self.preferred_cut_orientation = "HORIZONTAL"
                   THEN HorizontalFirst ELSE VerticalFirst
            /\ remaining_width <= 0 /\ remaining_height <= 0 => made = 0

\* C28: after a placement the first cut goes through the larger residual
\* dimension (horizontal with a full-width top sub-sheet when the residual
\* height is the larger, vertical with a full-height right sub-sheet when
\* the residual width is the larger), and the preferred orientation decides
\* only when the two residual dimensions are equal
CutOrderByResidual == [][FirstCutByResidual]_vars

\* the last placement made a full-height vertical cut and then a horizontal
\* one although the preferred orientation is horizontal, and an earlier one
\* made its two cuts the other way round
CutOrderByResidualWitness ==
    /\ pc = "for" /\ pi >= 3
    /\ sh[1].preferred_cut_orientation = "HORIZONTAL"
    /\ sh[1].placed_panels # <<>>
    /\ Len(sh[1].cut_lines) >= 4
    /\ LET placed == sh[1].placed_panels[Len(sh[1].placed_panels)]
           n == Len(sh[1].cut_lines)
           first == sh[1].cut_lines[n - 1]
           second == sh[1].cut_lines[n]
       IN  /\ first.orientation = "VERTICAL"
           /\ first.position = placed.x + placed.width
           /\ first.end - first.start > placed.height
           /\ second.orientation = "HORIZONTAL"
           /\ second.position = placed.y + placed.height
           /\ second.end - second.start = placed.width
    /\ \E i \in 1..(Len(sh[1].cut_lines) - 3) :
           /\ sh[1].cut_lines[i].orientation = "HORIZONTAL"
           /\ sh[1].cut_lines[i + 1].orientation = "VERTICAL"
           /\ sh[1].cut_lines[i + 1].start < sh[1].cut_lines[i].position
           /\ sh[1].cut_lines[i + 1].end = sh[1].cut_lines[i].position

==============================================================================
